---- MODULE Spec2Model ----
(***************************************************************************)
(* State-machine model of the rental_control integration: the Override     *)
(* Store (event_overrides.py), the coordinator's reconciliation tick and   *)
(* calendar refresh (coordinator.py), the event sensors' render            *)
(* (sensors/calsensor.py), the keymaster state-change listener (util.py)   *)
(* and the update_code_slot service (services.py).                         *)
(*                                                                         *)
(* Instants are integers counting 10-second units; a date is the instant   *)
(* divided by DayUnits.  Strings that the code takes apart (slot names,    *)
(* summaries, prefixes) are sequences of tokens; a missing or empty name   *)
(* is the empty sequence (the code tests names for truthiness only).       *)
(***************************************************************************)
EXTENDS Integers, Sequences, FiniteSets, TLC

\* ------------------------------------------------------------------------
\* Configuration and units
\* ------------------------------------------------------------------------

\* CONF_START_SLOT of the modelled entry (DEFAULT_START_SLOT).
start_slot == 10

\* coordinator.max_events (CONF_MAX_EVENTS): the number of event sensors and
\* of managed door-code slots.
VARIABLE max_events

\* CONF_MAX_EVENTS of the entry the coordinator is built for, and of the
\* entry whose sweep has a slot on either side of another.
MaxEventsSmall == 2
MaxEventsSweep == 3

\* timedelta(seconds=10) in model units.
TenSeconds == 1

\* timedelta(minutes=1) and timedelta(days=1) in model units.
MinuteUnits == 6 * TenSeconds
DayUnits == 24 * 60 * MinuteUnits


\* CONF_CHECKIN / CONF_CHECKOUT (16:00 and 11:00) as time-of-day offsets.
checkin == 16 * 60 * MinuteUnits
checkout == 11 * 60 * MinuteUnits

\* CONF_DAYS of the modelled entry.
days == 365

\* The options of the entry that the coordinator copies into its fields, at
\* construction and in update_config: ignore_non_reserved,
\* should_update_code, code_generator, event_prefix and refresh_frequency.
VARIABLE config

\* coordinator.event_prefix (CONF_EVENT_PREFIX).
event_prefix == config.event_prefix

\* coordinator.ignore_non_reserved (CONF_IGNORE_NON_RESERVED).
ignore_non_reserved == config.ignore_non_reserved

\* coordinator.should_update_code (CONF_SHOULD_UPDATE_CODE) and
\* coordinator.code_generator (CONF_CODE_GENERATION).
should_update_code == config.should_update_code
code_generator == config.code_generator

\* The options of the modelled entry: the defaults of the config flow.
DefaultConfig ==
    [ignore_non_reserved |-> TRUE, should_update_code |-> TRUE,
     code_generator |-> "date_based", event_prefix |-> <<"P">>,
     refresh_frequency |-> 2]

\* CONF_LOCK_ENTRY of the modelled entry.
lockname == "frontdoor"

\* How far the model lets the clock run, in steps of 10 seconds.
MaxTicks == 1

\* Arguments of the size-parametric store checks.
MaxStart == 10
MaxSlots == 3

\* ------------------------------------------------------------------------
\* Values
\* ------------------------------------------------------------------------

\* Python None for an override entry (the cleared placeholder).
None == [none |-> TRUE]

\* Python None for next_slot.
NoSlot == 0 - 1

\* Python None for an instant.
NoTime == 0 - 1

\* No exception.
NoError == "none"

DT(d, t) == d * DayUnits + t
DateOf(t) == t \div DayUnits
TimeOf(t) == t % DayUnits

\* dt.start_of_local_day() at instant t.
StartOfLocalDay(t) == DateOf(t) * DayUnits

Min(S) == CHOOSE x \in S : \A y \in S : x <= y
Max(S) == CHOOSE x \in S : \A y \in S : x >= y

RECURSIVE Sorted(_)
\* sorted(S) for a set of integers.
Sorted(S) == IF S = {} THEN <<>> ELSE <<Min(S)>> \o Sorted(S \ {Min(S)})

Last(s) == s[Len(s)]

ManagedRange(sslot, mslots) == sslot .. (sslot + mslots - 1)
Slots == ManagedRange(start_slot, max_events)

\* ------------------------------------------------------------------------
\* EventOverrides (event_overrides.py)
\* ------------------------------------------------------------------------

\* EventOverrides.__get_slots_with_values
GetSlotsWithValues(ov) == Sorted({k \in DOMAIN ov : ov[k] # None})

\* EventOverrides.__get_slots_without_values(max_slot)
GetSlotsWithoutValues(ov, max_slot) ==
    Sorted({k \in DOMAIN ov : ov[k] = None /\ k > max_slot})

\* Fault variant of __assign_next_slot: the slot after the largest occupied
\* one, whether or not the table has it free.
AssignNextSlotNoWrap(ov, cur, sslot, mslots) ==
    IF Cardinality(DOMAIN ov) # mslots THEN cur
    ELSE IF Len(GetSlotsWithValues(ov)) = mslots THEN NoSlot
    ELSE IF Len(GetSlotsWithValues(ov)) > 0 THEN Last(GetSlotsWithValues(ov)) + 1
    ELSE sslot

\* Fault variant of __assign_next_slot: the smallest free slot, without the
\* watermark of the largest occupied slot.
AssignNextSlotLowestFree(ov, cur, sslot, mslots) ==
    IF Cardinality(DOMAIN ov) # mslots THEN cur
    ELSE IF Len(GetSlotsWithoutValues(ov, 0)) > 0
    THEN GetSlotsWithoutValues(ov, 0)[1]
    ELSE NoSlot

\* __assign_next_slot, last step: the first free slot of all, or None.
FirstOrNone(any_slots) == IF Len(any_slots) > 0 THEN any_slots[1] ELSE NoSlot

\* __assign_next_slot with avail_slots, the free slots above the largest
\* occupied one.
FirstAvailable(avail_slots, ov) ==
    IF Len(avail_slots) > 0 THEN avail_slots[1]
    ELSE FirstOrNone(GetSlotsWithoutValues(ov, 0))

\* __assign_next_slot of a full table, given its slots_with_values.
NextSlotAbove(slots_with_values, ov, sslot, mslots) ==
    IF Len(slots_with_values) = mslots THEN NoSlot
    ELSE FirstAvailable(
            GetSlotsWithoutValues(ov, IF Len(slots_with_values) > 0
                                      THEN Last(slots_with_values)
                                      ELSE sslot - 1),
            ov)

\* EventOverrides.__assign_next_slot: the new value of _next_slot, given the
\* table just stored and the current value cur.
AssignNextSlot(ov, cur, sslot, mslots) ==
    IF Cardinality(DOMAIN ov) # mslots THEN cur
    ELSE NextSlotAbove(GetSlotsWithValues(ov), ov, sslot, mslots)

IsPrefixOf(p, s) == Len(p) <= Len(s) /\ SubSeq(s, 1, Len(p)) = p

\* re.findall(r"^(" + prefix + " )?(.*)$", slot_name)[0][1]
StripPrefix(prefix, slot_name) ==
    LET lead == prefix \o <<" ">> IN
    IF IsPrefixOf(lead, slot_name)
    THEN SubSeq(slot_name, Len(lead) + 1, Len(slot_name))
    ELSE slot_name

\* Fault variant of the stored entry: the identity keeps its prefix.
NewEntryKeepsPrefix(slot_code, slot_name, start_time, end_time, prefix) ==
    IF slot_name # <<>>
    THEN [slot_name |-> slot_name,
          slot_code |-> slot_code,
          start_time |-> start_time,
          end_time |-> end_time]
    ELSE None

\* The entry EventOverrides.update stores for its arguments.
NewEntry(slot_code, slot_name, start_time, end_time, prefix) ==
    IF slot_name # <<>>
    THEN [slot_name |-> StripPrefix(prefix, slot_name),
          slot_code |-> slot_code,
          start_time |-> start_time,
          end_time |-> end_time]
    ELSE None

\* Fault variant of the table update: a cleared slot is taken out of the
\* table instead of being given the placeholder.
PutDropsCleared(ov, slot, entry) ==
    [k \in (IF entry = None THEN DOMAIN ov \ {slot} ELSE DOMAIN ov \cup {slot}) |->
        IF k = slot THEN entry ELSE ov[k]]

\* The table after overrides[slot] = entry on a copy of the table.
Put(ov, slot, entry) ==
    [k \in DOMAIN ov \cup {slot} |-> IF k = slot THEN entry ELSE ov[k]]

\* Fault variant of the ready test: one entry short of max_slots is enough.
ReadyAfterOffByOne(ov, was_ready, mslots) ==
    IF Cardinality(DOMAIN ov) >= mslots - 1 THEN TRUE ELSE was_ready

\* EventOverrides.update: _ready once the table holds max_slots entries.
ReadyAfter(ov, was_ready, mslots) ==
    IF Cardinality(DOMAIN ov) = mslots THEN TRUE ELSE was_ready

\* EventOverrides.update once the table ov is built: the table is stored,
\* the next slot assigned and the ready flag set.
Stored(st, ov, sslot, mslots) ==
    [overrides |-> ov,
     next_slot |-> AssignNextSlot(ov, st.next_slot, sslot, mslots),
     ready |-> ReadyAfter(ov, st.ready, mslots)]

\* EventOverrides.update on the store st = [overrides, next_slot, ready].
StoreUpdate(st, slot, slot_code, slot_name, start_time, end_time, prefix, sslot, mslots) ==
    Stored(st,
           Put(st.overrides, slot,
               NewEntry(slot_code, slot_name, start_time, end_time, prefix)),
           sslot, mslots)

\* EventOverrides.get_slot_name
GetSlotName(ov, slot) == IF ov[slot] # None THEN ov[slot].slot_name ELSE <<>>

\* EventOverrides.get_slot_start_date / get_slot_end_date at instant t.
GetSlotStartDate(ov, slot, t) ==
    IF ov[slot] # None THEN DateOf(ov[slot].start_time) ELSE DateOf(t)
GetSlotEndDate(ov, slot, t) ==
    IF ov[slot] # None THEN DateOf(ov[slot].end_time) ELSE DateOf(t)

\* The slots, in ascending order, whose override carries slot_name.
SlotsNamed(ov, slot_name) ==
    Sorted({k \in DOMAIN ov : ov[k] # None /\ ov[k].slot_name = slot_name})

\* EventOverrides.get_slot_with_name
GetSlotWithName(ov, slot_name) ==
    IF Len(SlotsNamed(ov, slot_name)) > 0
    THEN ov[SlotsNamed(ov, slot_name)[1]]
    ELSE None

\* EventOverrides.get_slot_key_by_name
GetSlotKeyByName(ov, slot_name) ==
    IF Len(SlotsNamed(ov, slot_name)) > 0 THEN SlotsNamed(ov, slot_name)[1] ELSE 0

\* ------------------------------------------------------------------------
\* Slot-name extraction (util.py)
\* ------------------------------------------------------------------------

\* The positions at which pat occurs in s.
Occurrences(pat, s) ==
    {i \in 1..(Len(s) - Len(pat) + 1) : SubSeq(s, i, i + Len(pat) - 1) = pat}

\* What follows the occurrence of pat at position i of s.
After(pat, s, i) == SubSeq(s, i + Len(pat), Len(s))

Contains(s, tok) == \E i \in 1..Len(s) : s[i] = tok

RECURSIVE Strip(_)
\* str.strip(): leading and trailing blanks removed.
Strip(s) ==
    IF s = <<>> THEN s
    ELSE IF Head(s) = " " THEN Strip(Tail(s))
    ELSE IF Last(s) = " " THEN Strip(SubSeq(s, 1, Len(s) - 1))
    ELSE s

\* get_slot_name raises IndexError: p.findall(summary)[0] with a prefix
\* that does not occur in the summary.
GetSlotNameRaises(summary, prefix) ==
    prefix # <<>> /\ Occurrences(prefix \o <<" ">>, summary) = {}

\* The name get_slot_name works on once the prefix is stripped.
StrippedSummary(summary, prefix) ==
    IF prefix # <<>>
    THEN After(prefix \o <<" ">>, summary,
               Min(Occurrences(prefix \o <<" ">>, summary)))
    ELSE summary

\* get_slot_name once the prefix is stripped: the name it derives from
\* name; <<>> stands for None.
SlotNameFrom(name, description) ==
    LET dash == Occurrences(<<" ", "-", " ">>, name)
        trip == {i \in Occurrences(<<":", " ">>, name) :
                   \E j \in 1..(i - 1) : name[j] = "Tripadvisor"}
        closed == Occurrences(<<"CLOSED", " ", "-", " ">>, name)
        hyph == {i \in 1..Len(name) : name[i] = "-"}
        codes == {i \in 1..Len(description) : description[i] = "HMABCDEFGH"}
    IN  IF Contains(name, "Not available") \/ Contains(name, "Blocked")
        THEN <<>>
        ELSE IF name = <<"Reserved">>
        THEN (IF codes # {} THEN <<description[Min(codes)]>> ELSE <<>>)
        ELSE IF Contains(name, "Reserved") /\ dash # {}
        THEN Strip(After(<<" ", "-", " ">>, name, Min(dash)))
        ELSE IF Contains(name, "Tripadvisor") /\ trip # {}
        THEN Strip(After(<<":", " ">>, name, Max(trip)))
        ELSE IF Contains(name, "CLOSED") /\ closed # {}
        THEN Strip(After(<<"CLOSED", " ", "-", " ">>, name, Min(closed)))
        ELSE IF Cardinality(hyph) >= 3
        THEN Strip(SubSeq(name, Min(hyph) + 1,
                          Max(hyph \ {Max(hyph)}) - 1))
        ELSE Strip(name)

\* get_slot_name(summary, description, prefix), for arguments on which it
\* does not raise.
SlotNameOf(summary, description, prefix) ==
    SlotNameFrom(StrippedSummary(summary, prefix), description)

\* ------------------------------------------------------------------------
\* Calendar parsing (coordinator.py)
\* ------------------------------------------------------------------------

\* A feed entry (VEVENT) is a record
\*   [summary, description, dtstart, dtend, has_time, has_end, rrule]
\* where dtstart/dtend are instants, has_time tells DATE-TIME values from
\* DATE values and has_end whether DTEND is present.  A stored event is a
\* record [summary, description, start, end].

\* _ical_parser's decision to skip an entry before building the event.
ParserSkips(f, from_date, to_date) ==
    \/ f.rrule
    \/ Contains(f.summary, "Check-in") \/ Contains(f.summary, "Check-out")
    \/ (f.has_end /\ ~f.has_time /\ DateOf(f.dtend) < DateOf(from_date) - 30)
    \/ (~f.has_time /\ DateOf(f.dtstart) > DateOf(to_date))
    \/ (ignore_non_reserved
        /\ (Contains(f.summary, "Blocked") \/ Contains(f.summary, "Not available")))

\* The override _ical_parser takes an entry's times from.
OverrideFor(slot_name, ov, has_store) ==
    IF slot_name # <<>> /\ has_store THEN GetSlotWithName(ov, slot_name) ELSE None

\* The event _ical_parser builds from an entry with the check-in and
\* check-out times cin and cout.
EventAt(f, cin, cout) ==
    [summary |-> IF event_prefix # <<>>
                 THEN event_prefix \o <<" ">> \o f.summary ELSE f.summary,
     description |-> f.description,
     start |-> DT(DateOf(f.dtstart), cin),
     end |-> IF f.has_end THEN DT(DateOf(f.dtend), cout)
             ELSE DT(DateOf(f.dtstart), cin)]

\* The event _ical_parser builds from an entry, given the override found
\* for its slot name.
EventWith(f, override) ==
    EventAt(f,
            IF override # None THEN TimeOf(override.start_time)
            ELSE IF f.has_time THEN TimeOf(f.dtstart) ELSE checkin,
            IF override # None THEN TimeOf(override.end_time)
            ELSE IF f.has_time THEN TimeOf(f.dtend) ELSE checkout)

\* The event _ical_parser builds from an entry it does not skip.
ParsedEvent(f, ov, has_store) ==
    EventWith(f, OverrideFor(SlotNameOf(f.summary, f.description, <<>>),
                             ov, has_store))

\* _ical_event returns None: the event has already ended.
AlreadyEnded(e, from_date) ==
    \/ e.end < from_date
    \/ (DateOf(e.end) = DateOf(from_date) /\ TimeOf(e.end) = 0)

\* Fault variant of the sort: e is put ahead of the elements that start when
\* it does.
InsertByStartAhead(e, s) ==
    LET n == Cardinality({i \in 1..Len(s) : s[i].start < e.start})
    IN SubSeq(s, 1, n) \o <<e>> \o SubSeq(s, n + 1, Len(s))

\* e put behind every element of the sorted s that does not start later
\* (list.sort is stable).
InsertByStart(e, s) ==
    LET n == Cardinality({i \in 1..Len(s) : s[i].start <= e.start})
    IN SubSeq(s, 1, n) \o <<e>> \o SubSeq(s, n + 1, Len(s))

RECURSIVE SortByStart(_)
SortByStart(s) ==
    IF s = <<>> THEN <<>>
    ELSE InsertByStart(Last(s), SortByStart(SubSeq(s, 1, Len(s) - 1)))

\* The events so far with e appended, unless _ical_event drops it.
KeepUnlessEnded(e, from_date, rest) ==
    IF AlreadyEnded(e, from_date) THEN rest ELSE <<e>> \o rest

RECURSIVE ParseEntries(_, _, _, _, _)
ParseEntries(feed, ov, has_store, from_date, to_date) ==
    IF feed = <<>> THEN <<>>
    ELSE IF ParserSkips(Head(feed), from_date, to_date)
    THEN ParseEntries(Tail(feed), ov, has_store, from_date, to_date)
    ELSE KeepUnlessEnded(ParsedEvent(Head(feed), ov, has_store), from_date,
                         ParseEntries(Tail(feed), ov, has_store, from_date, to_date))

\* _ical_parser at instant t.
IcalParser(feed, ov, has_store, t) ==
    SortByStart(ParseEntries(feed, ov, has_store, StartOfLocalDay(t),
                             StartOfLocalDay(t) + days * DayUnits))

\* ------------------------------------------------------------------------
\* Event sensors (sensors/calsensor.py)
\* ------------------------------------------------------------------------

\* RentalControlCalSensor.__init__: the attributes the model keeps.
NewSensor ==
    [available |-> FALSE, start |-> NoTime, end |-> NoTime, slot_name |-> <<>>]

ResetCall(slot, by) == [op |-> "reset", slot |-> slot, by |-> by]

\* async_fire_set_code(coordinator, event, slot): the slot and the event
\* attributes it loads into it.
SetCodeCall(slot, s, slot_code) ==
    [op |-> "set_code", slot |-> slot, slot_name |-> s.slot_name,
     start |-> s.start, end |-> s.end, slot_code |-> slot_code]

\* strftime("%d") of an instant; day 0 of the model is the first of a month.
DayOfMonth(t) == DateOf(t) + 1

Digits == <<"0", "1", "2", "3", "4", "5", "6", "7", "8", "9">>
TwoDigits(n) == Digits[(n \div 10) + 1] \o Digits[(n % 10) + 1]

\* strftime("%d"), ("%m") and ("%Y") of an instant: the civil date of its
\* day, day 0 of the model being 1 March 2025 (day 739616 of the count that
\* starts on 1 March of the year 0).
CivilDate(t) ==
    LET z == DateOf(t) + 739616
        era == z \div 146097
        doe == z - era * 146097
        yoe == (doe - doe \div 1460 + doe \div 36524 - doe \div 146096) \div 365
        doy == doe - (365 * yoe + yoe \div 4 - yoe \div 100)
        mp == (5 * doy + 2) \div 153
    IN  [day |-> doy - (153 * mp + 2) \div 5 + 1,
         month |-> IF mp < 10 THEN mp + 3 ELSE mp - 9,
         year |-> yoe + era * 400 + (IF mp < 10 THEN 0 ELSE 1)]

FourDigits(n) == TwoDigits(n \div 100) \o TwoDigits(n % 100)

\* str(n) for a number below 100.
NumStr(n) == IF n < 10 THEN Digits[n + 1] ELSE TwoDigits(n)

RECURSIVE ZFill(_, _)
\* str.zfill(n) of a string of digits.
ZFill(s, n) == IF Len(s) >= n THEN s ELSE ZFill("0" \o s, n)

\* start day, end day, start month, end month, start year, end year.
DateDigits(sd, ed) ==
    TwoDigits(sd.day) \o TwoDigits(ed.day) \o TwoDigits(sd.month)
    \o TwoDigits(ed.month) \o FourDigits(sd.year) \o FourDigits(ed.year)

\* Fault variant of the date code: the digits are cut to the length but
\* never filled up to it.
DateBasedCodeCutOnly(start, end, length) ==
    LET code == DateDigits(CivilDate(start), CivilDate(end))
    IN IF Len(code) > length THEN SubSeq(code, 1, length) ELSE code

\* _generate_door_code, the fall-back generator: the date digits cut or
\* zero-filled to the code length.
DateBasedCode(start, end, length) ==
    LET code == DateDigits(CivilDate(start), CivilDate(end))
    IN IF Len(code) > length THEN SubSeq(code, 1, length)
       ELSE ZFill(code, length)

\* CONF_CODE_LENGTH of the modelled entry (DEFAULT_CODE_LENGTH).
code_length == 4

\* RentalControlCalSensor._generate_door_code for an event without a
\* description, as the events of the calendar are: the generator is
\* date_based whatever the entry asks for.
GenerateDoorCode(start, end) == DateBasedCode(start, end, code_length)

\* _extract_last_four of a description; "" stands for None.  The model's
\* descriptions carry the four digits as one token or not at all.
ExtractLastFour(description) ==
    IF \E i \in 1..Len(description) : description[i] = "Last 4 Digits: 1234"
    THEN "1234" ELSE ""

\* The codes the static_random generator can return: randrange(1, max,
\* code_length) is 1 plus a multiple of code_length, zero-filled.
RandomCodes(length) ==
    {ZFill(NumStr(1), length), ZFill(NumStr(1 + length), length)}

\* RentalControlCalSensor._generate_door_code for a sensor with the given
\* description (<<>> for None), start and end: the codes it can return.
DoorCodes(description, start, end, generator, length) ==
    IF description # <<>> /\ generator = "last_four" /\ length = 4
       /\ ExtractLastFour(description) # ""
    THEN {ExtractLastFour(description)}
    ELSE IF description # <<>> /\ generator = "static_random"
    THEN RandomCodes(length)
    ELSE {DateBasedCode(start, end, length)}

\* The slot_code attribute async_update gives the sensor s.
SlotCode(override, s) ==
    IF override # None /\ override.slot_code # "" THEN override.slot_code
    ELSE GenerateDoorCode(s.start, s.end)

\* Fault variant of the set_code decision: the event is pushed whether or
\* not its slot name has an override.
RenderOverrideAlwaysPushes(named, clear_calls, ev, override, nslot, cready) ==
    IF /\ override # None
       /\ \/ DateOf(override.start_time) # DateOf(ev.start)
          \/ DateOf(override.end_time) # DateOf(ev.end)
    THEN [sensor |-> named, calls |-> clear_calls, error |-> "AttributeError"]
    ELSE [sensor |-> [named EXCEPT !.available = cready],
          calls |-> clear_calls \o <<SetCodeCall(nslot, named,
                                                 SlotCode(override, named))>>,
          error |-> NoError]

\* async_update from the override lookup on: named is the sensor with the
\* event's dates and slot name, override what get_slot_with_name returned.
\* async_fire_update_times reads coordinator.new_event_overrides, which the
\* coordinator does not have.
RenderOverride(named, clear_calls, ev, override, nslot, cready) ==
    IF /\ override # None
       /\ \/ DateOf(override.start_time) # DateOf(ev.start)
          \/ DateOf(override.end_time) # DateOf(ev.end)
    THEN [sensor |-> named, calls |-> clear_calls, error |-> "AttributeError"]
    ELSE [sensor |-> [named EXCEPT !.available = cready],
          calls |-> clear_calls \o (IF override = None
                                    THEN <<SetCodeCall(nslot, named,
                                                       SlotCode(override, named))>>
                                    ELSE <<>>),
          error |-> NoError]

\* async_update from get_slot_name on: dated is the sensor with the event's
\* dates.  The sensor with its name and the override are computed once, as
\* the code computes them, and handed on as values.
RenderNamed(dated, clear_calls, ev, slot_name, ov, nslot, cready) ==
    CHOOSE r \in {RenderOverride(named, clear_calls, ev, override, nslot, cready) :
                    named \in {[dated EXCEPT !.slot_name = slot_name]},
                    override \in {GetSlotWithName(ov, slot_name)}} : TRUE

\* async_update once the clear decision is taken.
RenderDated(dated, clear_calls, ev, ov, nslot, cready) ==
    IF GetSlotNameRaises(ev.summary, event_prefix)
    THEN [sensor |-> dated, calls |-> clear_calls, error |-> "IndexError"]
    ELSE CHOOSE r \in {RenderNamed(dated, clear_calls, ev, slot_name, ov, nslot, cready) :
                         slot_name \in {SlotNameOf(ev.summary, ev.description, event_prefix)}} : TRUE

\* Fault variant of the clear decision: an event still to come is cleared
\* whether or not the sensor already shows its start.
RenderClearsWhileAhead(s, ev, t) ==
    \/ ev.start > t
    \/ (s.end # ev.end /\ should_update_code /\ code_generator = "date_based")

\* should_update_code of async_update for sensor s and event ev at t.
RenderClears(s, ev, t) ==
    \/ (ev.start > t /\ s.start # ev.start)
    \/ (s.end # ev.end /\ should_update_code /\ code_generator = "date_based")

\* async_update of a sensor s that has the event ev.
RenderEvent(s, ev, ov, nslot, cready, t) ==
    RenderDated([s EXCEPT !.start = ev.start, !.end = ev.end],
                IF RenderClears(s, ev, t)
                THEN <<ResetCall(GetSlotKeyByName(ov, s.slot_name), "render")>>
                ELSE <<>>,
                ev, ov, nslot, cready)

\* RentalControlCalSensor.async_update of sensor s with event number i at
\* instant t: the sensor afterwards, the external calls issued, and the
\* exception raised.
Render(s, i, cal, ov, nslot, cready, t) ==
    IF ~cready THEN [sensor |-> s, calls |-> <<>>, error |-> NoError]
    ELSE IF i < Len(cal) THEN RenderEvent(s, cal[i + 1], ov, nslot, cready, t)
    ELSE [sensor |-> [NewSensor EXCEPT !.available = cready],
          calls |-> <<>>, error |-> NoError]

RECURSIVE RenderCalls(_, _)
\* The calls of the renders rs[i..], in sensor order.
RenderCalls(rs, i) ==
    IF i > Len(rs) THEN <<>> ELSE rs[i].calls \o RenderCalls(rs, i + 1)

\* The outcome of asyncio.gather over the renders rs: every render has run;
\* the first exception is the one the caller sees.
Gathered(rs) ==
    [sensors |-> [i \in 1..Len(rs) |-> rs[i].sensor],
     calls |-> RenderCalls(rs, 1),
     error |-> IF \A i \in 1..Len(rs) : rs[i].error = NoError THEN NoError
               ELSE rs[Min({i \in 1..Len(rs) : rs[i].error # NoError})].error]

\* asyncio.gather(*[event.async_update() for event in event_sensors])
RenderAll(sensors, cal, ov, nslot, cready, t) ==
    Gathered([i \in 1..Len(sensors) |->
                 Render(sensors[i], i - 1, cal, ov, nslot, cready, t)])

\* util.get_event_names
GetEventNames(sensors) ==
    {sensors[i].slot_name : i \in {j \in 1..Len(sensors) : sensors[j].slot_name # <<>>}}

\* RentalControlCoordinator.events_ready: the value returned, which is also
\* the value left in _events_ready.
EventsReady(latch, sensors) ==
    IF latch THEN latch
    ELSE IF Len(sensors) # max_events THEN latch
    ELSE \A i \in 1..Len(sensors) : sensors[i].available

\* ------------------------------------------------------------------------
\* Override validity sweep (event_overrides.py)
\* ------------------------------------------------------------------------

\* Fault variant of the clear_code decision: the identity is not looked up
\* among the rendered slot names.
ShouldClearByDates(ov, slot, event_names, cal, t) ==
    LET start_date == GetSlotStartDate(ov, slot, t)
        end_date == GetSlotEndDate(ov, slot, t)
        last_end == IF max_events <= Len(cal)
                    THEN DateOf(cal[max_events].end)
                    ELSE DateOf(Last(cal).end)
    IN \/ Len(cal) = 0
       \/ start_date > end_date
       \/ end_date < DateOf(t)
       \/ start_date > last_end

\* Fault variant of the clear_code decision: a stay that has begun counts
\* as lapsed.
ShouldClearOnceBegun(ov, slot, event_names, cal, t) ==
    LET start_date == GetSlotStartDate(ov, slot, t)
        end_date == GetSlotEndDate(ov, slot, t)
        last_end == IF max_events <= Len(cal)
                    THEN DateOf(cal[max_events].end)
                    ELSE DateOf(Last(cal).end)
    IN \/ GetSlotName(ov, slot) \notin event_names
       \/ Len(cal) = 0
       \/ start_date > end_date
       \/ start_date <= DateOf(t)
       \/ start_date > last_end

\* The clear_code decision of async_check_overrides for one assigned slot.
ShouldClear(ov, slot, event_names, cal, t) ==
    LET start_date == GetSlotStartDate(ov, slot, t)
        end_date == GetSlotEndDate(ov, slot, t)
        last_end == IF max_events <= Len(cal)
                    THEN DateOf(cal[max_events].end)
                    ELSE DateOf(Last(cal).end)
    IN \/ GetSlotName(ov, slot) \notin event_names
       \/ Len(cal) = 0
       \/ start_date > end_date
       \/ end_date < DateOf(t)
       \/ start_date > last_end

\* The sweep's state after the clear of slot: store is what update left,
\* r the outcome of the render of all sensors that follows.
SweepCleared(st, slot, store, r) ==
    [overrides |-> store.overrides,
     next_slot |-> store.next_slot,
     ready |-> store.ready,
     sensors |-> r.sensors,
     calls |-> st.calls \o <<ResetCall(slot, "sweep")>> \o r.calls,
     error |-> r.error]

\* The clear of slot in the sweep: the render of all sensors against the
\* store that update left.
SweepRender(st, slot, store, cal, cready, t) ==
    SweepCleared(st, slot, store,
                 RenderAll(st.sensors, cal, store.overrides, store.next_slot,
                           cready, t))

\* The clear of slot in the sweep: reset, update with no name, render.
SweepClear(st, slot, cal, cready, t) ==
    SweepRender(st, slot,
                StoreUpdate(st, slot, "", <<>>, StartOfLocalDay(t),
                            StartOfLocalDay(t), <<>>, start_slot, max_events),
                cal, cready, t)

RECURSIVE SweepLoop(_, _, _, _, _, _)
\* The loop over assigned_slots: st carries the store, the sensors, the
\* calls issued so far and the exception that ended the loop.
SweepLoop(slots, st, event_names, cal, cready, t) ==
    IF slots = <<>> \/ st.error # NoError THEN st
    ELSE IF ShouldClear(st.overrides, Head(slots), event_names, cal, t)
    THEN SweepLoop(Tail(slots), SweepClear(st, Head(slots), cal, cready, t),
                   event_names, cal, cready, t)
    ELSE SweepLoop(Tail(slots), st, event_names, cal, cready, t)

\* Fault variant of the sweep's entry test: only the calendar is looked at.
SweepSkippedUnlessLoaded(cloaded, latch, sensors) == ~cloaded

\* The sweep is skipped: calendar not loaded or event sensors not ready.
SweepSkipped(cloaded, latch, sensors) ==
    ~cloaded \/ ~EventsReady(latch, sensors)

\* EventOverrides.async_check_overrides on st = [overrides, next_slot,
\* ready, sensors, calls, error].
CheckOverrides(st, cloaded, latch, cal, cready, t) ==
    IF SweepSkipped(cloaded, latch, st.sensors) THEN st
    ELSE SweepLoop(GetSlotsWithValues(st.overrides), st,
                   GetEventNames(st.sensors), cal, cready, t)

\* ------------------------------------------------------------------------
\* The environment: feeds and keymaster slot states
\* ------------------------------------------------------------------------

\* An all-day VEVENT from day d1 to day d2.
Entry(summary, d1, d2) ==
    [summary |-> summary, description |-> <<>>,
     dtstart |-> DT(d1, 0), dtend |-> DT(d2, 0),
     has_time |-> FALSE, has_end |-> TRUE, rrule |-> FALSE]

\* The feeds a fetch can return.
Feeds ==
    { <<>>,
      <<Entry(<<"A">>, 1, 3)>>,
      <<Entry(<<"B">>, 3, 5), Entry(<<"A">>, 1, 3)>> }

\* hass.states.get(...) returned None.
Missing == "<missing>"
MissingName == <<"<missing>">>

\* The state of one keymaster code slot as the integration reads it: PIN,
\* name, the use-date-range switch and the date range (NoTime: absent or
\* not parseable).
LockState(pin, name, use_range, start, end) ==
    [pin |-> pin, name |-> name, use_range |-> use_range,
     start |-> start, end |-> end]

LockStates ==
    { LockState(Missing, MissingName, FALSE, NoTime, NoTime),
      LockState("unknown", <<"unknown">>, FALSE, NoTime, NoTime),
      LockState("unavailable", <<"unavailable">>, FALSE, NoTime, NoTime),
      LockState("1234", <<"A">>, TRUE, NoTime, DT(3, checkout)),
      LockState("unavailable", <<"A">>, TRUE, DT(1, checkin), DT(3, checkout)),
      LockState("1234", <<"A">>, TRUE, DT(1, checkin), DT(3, checkout)),
      LockState("1234", <<"P", " ", "B">>, TRUE, DT(3, checkin), DT(5, checkout)),
      LockState("1234", <<"A">>, TRUE, DT(0, checkin), DT(0, checkout)),
      LockState("1234", <<"C">>, FALSE, DT(1, 0), DT(2, 0)) }

\* The slot states whose four entities all carry a value.
FullLockStates ==
    {l \in LockStates : l.pin \notin {Missing, "unknown", "unavailable"}
                         /\ l.start # NoTime /\ l.end # NoTime}

\* The data of an accepted update_code_slot call: a name with its code and
\* times, or no name at all.
ServiceData ==
    { LockState("1234", <<"A">>, TRUE, DT(1, checkin), DT(3, checkout)),
      LockState("", <<>>, FALSE, DT(1, 0), DT(1, 0)) }

\* The (lockname, slot) pairs update_code_slot is called with.
ServiceTargets ==
    {<<lockname, slot>> : slot \in {0} \cup ((start_slot - 1) .. (start_slot + max_events))}
    \cup {<<"backdoor", start_slot>>, <<"", start_slot>>}

\* ------------------------------------------------------------------------
\* State
\* ------------------------------------------------------------------------

VARIABLES
    overrides,          \* EventOverrides._overrides
    next_slot,          \* EventOverrides._next_slot
    ready,              \* EventOverrides._ready
    calendar,           \* coordinator.calendar
    calendar_loaded,    \* coordinator.calendar_loaded
    calendar_ready,     \* coordinator.calendar_ready
    overrides_loaded,   \* coordinator.overrides_loaded
    events_ready,       \* coordinator._events_ready
    event,              \* coordinator.event
    event_sensors,      \* coordinator.event_sensors
    next_refresh,       \* coordinator.next_refresh
    refresh_frequency,  \* coordinator.refresh_frequency
    now,                \* dt.now()
    pc,                 \* where coordinator.update() stands
    response,           \* how the latest fetch ended; "config" once update_config has run
    parsed,             \* what _ical_parser returned for it
    calls,              \* external slot calls issued by the latest step
    raised,             \* exception the latest step raised
    swept,              \* whether the latest step was a sweep, and of which kind
    fetched,            \* whether the tick under way, or the latest one, fetched
    fn,                 \* the store of the size-parametric store checks
    push,               \* the async_fire_set_code call of the push checks
    keymaster           \* the lock's code slots, where the model follows them

store_vars == <<overrides, next_slot, ready>>
coord_vars == <<calendar, calendar_loaded, calendar_ready, overrides_loaded,
                events_ready, event, event_sensors, next_refresh,
                refresh_frequency, max_events>>
vars == <<overrides, next_slot, ready, calendar, calendar_loaded,
          calendar_ready, overrides_loaded, events_ready, event,
          event_sensors, next_refresh, refresh_frequency, max_events, now, pc,
          response,
          parsed, calls, raised, swept, fetched, fn, config, push, keymaster>>

\* The store a fresh EventOverrides(start_slot, max_slots) holds.
NewStore == [overrides |-> <<>>, next_slot |-> NoSlot, ready |-> FALSE]

\* RentalControlCoordinator.__init__ and EventOverrides.__init__.
CoordinatorInit ==
    /\ overrides = NewStore.overrides
    /\ next_slot = NewStore.next_slot
    /\ ready = NewStore.ready
    /\ calendar = <<>>
    /\ calendar_loaded = FALSE
    /\ calendar_ready = FALSE
    /\ overrides_loaded = FALSE
    /\ events_ready = FALSE
    /\ event = None
    /\ event_sensors = <<>>
    /\ now = DT(1, 0)
    /\ next_refresh = now
    /\ refresh_frequency \in {0, 2}
    /\ pc = "idle"
    /\ response = "none"
    /\ parsed = <<>>
    /\ calls = <<>>
    /\ raised = NoError
    /\ swept = "no"
    /\ fetched = FALSE

\* The options the coordinator was built from: those of the modelled entry
\* with the refresh frequency it runs with.
EntryConfig == [DefaultConfig EXCEPT !.refresh_frequency = refresh_frequency]

\* The store of the size-parametric checks, when they are not under way.
IdleStore ==
    [start_slot |-> start_slot, max_slots |-> MaxEventsSmall, store |-> NewStore]

\* No async_fire_set_code call is followed.
IdlePush ==
    [stage |-> "none", issued |-> {}, completed |-> {}, failed |-> {}]

\* The lock's code slots are not followed: what the integration reads from
\* them is any of the states of LockStates.
Unobserved == [on |-> FALSE, slots |-> <<>>, changed |-> {}, read |-> <<>>]

\* The lock's code slots are followed.  slots is what the input_text,
\* input_datetime and input_boolean entities of each slot hold, which the
\* pushes write and the state change listener tracks; changed are the
\* slots with a change still to be reported; read is what the text, datetime
\* and switch entities of each slot hold, which the startup import reads
\* and nothing of the integration writes.
Observed(lock, read) ==
    [on |-> TRUE, slots |-> lock, changed |-> {}, read |-> read]

\* A code slot after keymaster has reset it: no PIN, no name, the date range
\* switched off.
Blank == LockState("", <<>>, FALSE, NoTime, NoTime)

\* Fault variant of the field writes of a set-code push: the name is not
\* written.
LoadedNameless(c) == LockState(c.slot_code, <<>>, TRUE, c.start, c.end)

\* A code slot after the six field writes of the set-code push c.
Loaded(c) == LockState(c.slot_code, c.slot_name, TRUE, c.start, c.end)

\* A code slot that two set-code pushes have written at once: the field
\* writes of the two complete in any order, so each field has the value of
\* either.
Mixes(a, b) ==
    {LockState(p.pin, n.name, TRUE, s.start, e.end) : p \in {a, b}, n \in {a, b}, s \in {a, b}, e \in {a, b}}

\* The lock k with slot in state l; a slot whose state changed is left to
\* report it.
SlotSet(k, slot, l) ==
    [k EXCEPT !.slots[slot] = l,
              !.changed = IF l = k.slots[slot] THEN @ ELSE @ \cup {slot}]

RECURSIVE LockOutcomes(_, _, _)
\* The states the lock k can be in after the calls cs: a reset blanks its
\* slot, a set-code push loads its slot, pushes of one gather to the same
\* slot (pushed: the slots pushed to since the gather began) are mixed.  A
\* call to a slot the lock does not have changes nothing.
LockOutcomes(k, cs, pushed) ==
    IF cs = <<>> THEN {k}
    ELSE IF Head(cs).slot \notin Slots THEN LockOutcomes(k, Tail(cs), pushed)
    ELSE IF Head(cs).op = "reset"
    THEN LockOutcomes(SlotSet(k, Head(cs).slot, Blank), Tail(cs),
                      IF Head(cs).by = "sweep" THEN {} ELSE pushed)
    ELSE UNION {LockOutcomes(SlotSet(k, Head(cs).slot, l), Tail(cs),
                             pushed \cup {Head(cs).slot}) :
                   l \in IF Head(cs).slot \in pushed
                         THEN Mixes(k.slots[Head(cs).slot], Loaded(Head(cs)))
                         ELSE {Loaded(Head(cs))}}

\* The states of the lock after the external calls cs of one step.
LockAfter(k, cs) == IF k.on THEN LockOutcomes(k, cs, {}) ELSE {k}

\* What the startup import can read from the slots of the lock.
ImportReadings(lock_states) ==
    IF keymaster.on THEN {keymaster.read} ELSE [Slots -> lock_states]

\* The slots a state change can be reported for, and what the handler can
\* read from such a slot.
Reporting == IF keymaster.on THEN keymaster.changed ELSE Slots
SlotReadings(slot, lock_states) ==
    IF keymaster.on THEN {keymaster.slots[slot]} ELSE lock_states

\* The lock once the state change of slot has been handled.
Heard(slot) ==
    IF keymaster.on THEN [keymaster EXCEPT !.changed = @ \ {slot}] ELSE keymaster

\* The parts of the state that belong to the checks of single operations.
Aside ==
    /\ fn = IdleStore
    /\ push = IdlePush

Init ==
    /\ CoordinatorInit
    /\ max_events = MaxEventsSmall
    /\ config = EntryConfig
    /\ keymaster = Unobserved
    /\ Aside

\* ------------------------------------------------------------------------
\* Coordinator operations (coordinator.py)
\* ------------------------------------------------------------------------

\* The coordinator fields a write through update_event_overrides touches.
WriteState ==
    [overrides |-> overrides, next_slot |-> next_slot, ready |-> ready,
     calendar_ready |-> calendar_ready, next_refresh |-> next_refresh]

\* update_event_overrides once the store is updated.
Written(st, store, cloaded, t) ==
    [overrides |-> store.overrides,
     next_slot |-> store.next_slot,
     ready |-> store.ready,
     calendar_ready |-> IF store.ready /\ cloaded THEN TRUE
                        ELSE st.calendar_ready,
     next_refresh |-> t]

\* RentalControlCoordinator.update_event_overrides at instant t.
UpdateEventOverrides(st, slot, slot_code, slot_name, start_time, end_time, cloaded, t) ==
    Written(st,
            StoreUpdate(st, slot, slot_code, slot_name, start_time, end_time,
                        event_prefix, start_slot, max_events),
            cloaded, t)

\* The coordinator takes over the fields of a write.
Write(st) ==
    /\ overrides' = st.overrides
    /\ next_slot' = st.next_slot
    /\ ready' = st.ready
    /\ calendar_ready' = st.calendar_ready
    /\ next_refresh' = st.next_refresh

\* Fault variant of the skip test of the startup import: the date range is
\* not looked at.
ImportSkipsUnlessRange(l) ==
    \/ l.pin = Missing
    \/ l.name = MissingName

\* The startup import leaves a slot alone: a state it needs is missing or
\* its date range does not parse.
ImportSkips(l) ==
    \/ l.pin = Missing
    \/ l.name = MissingName
    \/ (l.use_range /\ (l.start = NoTime \/ l.end = NoTime))

\* "unknown" and "unavailable" states are read as empty.
ImportCode(l) == IF l.pin \in {"unknown", "unavailable"} THEN "" ELSE l.pin
ImportName(l) ==
    IF l.name \in {<<"unknown">>, <<"unavailable">>} THEN <<>> ELSE l.name

RECURSIVE ImportLoop(_, _, _, _, _)
\* The startup import loop of update() over the slots still to visit, with
\* lock[i] the state read for slot i.
ImportLoop(slots, st, lock, cloaded, t) ==
    IF slots = <<>> THEN st
    ELSE LET i == Head(slots)
             l == lock[i]
         IN IF ImportSkips(l) THEN ImportLoop(Tail(slots), st, lock, cloaded, t)
            ELSE ImportLoop(
                   Tail(slots),
                   UpdateEventOverrides(
                       st, i, ImportCode(l), ImportName(l),
                       IF l.use_range THEN l.start ELSE StartOfLocalDay(t),
                       IF l.use_range THEN l.end
                       ELSE StartOfLocalDay(t) + DayUnits,
                       cloaded, t),
                   lock, cloaded, t)

\* The interval update() adds to now when a refresh is due.
RefreshInterval(freq) ==
    IF freq = 0 THEN TenSeconds ELSE freq * MinuteUnits

\* Fault variant of the due test: strictly after next_refresh.
RefreshDueStrict(t, nr) == t > nr

\* update() decides that the calendar refresh is due.
RefreshDue(t, nr) == t >= nr

\* Fault variant of the anti-flap test: any stored event protects the list.
DiscardsParseAnyStored(old, new) == Len(old) > 0 /\ Len(new) = 0

\* _refresh_calendar keeps the old calendar: nothing parsed, but more than
\* one event stored.
DiscardsParse(old, new) == Len(old) > 1 /\ Len(new) = 0

\* Fault variant of the search for the next event: the first stored event
\* is taken, ended or not.
NextEventFirst(cal, cur, t) == IF cal = <<>> THEN cur ELSE cal[1]

\* The event _refresh_calendar leaves in coordinator.event.
NextEvent(cal, cur, t) ==
    LET future == {i \in 1..Len(cal) : cal[i].end > t}
    IN IF future = {} THEN cur ELSE cal[Min(future)]

\* update(): entry of the tick, up to the await of the fetch.
TickStart ==
    /\ pc = "idle"
    /\ IF RefreshDue(now, next_refresh)
       THEN /\ next_refresh' = now + RefreshInterval(refresh_frequency)
            /\ pc' = "fetching"
       ELSE /\ pc' = "import"
            /\ UNCHANGED next_refresh
    /\ fetched' = RefreshDue(now, next_refresh)
    /\ calls' = <<>>
    /\ raised' = NoError
    /\ response' = "none"
    /\ swept' = "no"
    /\ parsed' = <<>>
    /\ UNCHANGED <<store_vars, calendar, calendar_loaded, calendar_ready,
                   overrides_loaded, events_ready, event, event_sensors,
                   refresh_frequency, max_events, now, fn, config, push, keymaster>>

\* _refresh_calendar: the fetch timed out; asyncio.TimeoutError leaves
\* update().
FetchTimeout ==
    /\ pc = "fetching"
    /\ response' = "timeout"
    /\ swept' = "no"
    /\ raised' = "TimeoutError"
    /\ pc' = "idle"
    /\ parsed' = <<>>
    /\ calls' = <<>>
    /\ UNCHANGED <<store_vars, coord_vars, now, fn, config, fetched, push, keymaster>>

\* Fault variant of the parse of the body: the parser's error is caught and
\* the tick goes on.
FetchMalformedSwallowed ==
    /\ pc = "fetching"
    /\ response' = "malformed"
    /\ swept' = "no"
    /\ raised' = NoError
    /\ pc' = "import"
    /\ parsed' = <<>>
    /\ calls' = <<>>
    /\ UNCHANGED <<store_vars, coord_vars, now, fn, config, fetched, push, keymaster>>

\* _refresh_calendar: the body is not a calendar; Calendar.from_ical raises.
FetchMalformed ==
    /\ pc = "fetching"
    /\ response' = "malformed"
    /\ swept' = "no"
    /\ raised' = "ValueError"
    /\ pc' = "idle"
    /\ parsed' = <<>>
    /\ calls' = <<>>
    /\ UNCHANGED <<store_vars, coord_vars, now, fn, config, fetched, push, keymaster>>

\* Fault variant of the non-200 branch: the status is raised as an
\* exception that leaves update().
FetchStatusErrorRaises ==
    /\ pc = "fetching"
    /\ response' = "status_error"
    /\ swept' = "no"
    /\ raised' = "ClientResponseError"
    /\ pc' = "idle"
    /\ parsed' = <<>>
    /\ calls' = <<>>
    /\ UNCHANGED <<store_vars, coord_vars, now, fn, config, fetched, push, keymaster>>

\* _refresh_calendar: response.status != 200.
FetchStatusError ==
    /\ pc = "fetching"
    /\ response' = "status_error"
    /\ swept' = "no"
    /\ raised' = NoError
    /\ pc' = "import"
    /\ parsed' = <<>>
    /\ calls' = <<>>
    /\ UNCHANGED <<store_vars, coord_vars, now, fn, config, fetched, push, keymaster>>

\* _refresh_calendar stores new_calendar; r is the outcome of the render of
\* all sensors that ends it.
CalendarStored(new_calendar, cready, r) ==
    /\ calendar' = new_calendar
    /\ calendar_loaded' = TRUE
    /\ calendar_ready' = cready
    /\ event' = NextEvent(new_calendar, event, now)
    /\ event_sensors' = r.sensors
    /\ calls' = r.calls
    /\ raised' = r.error
    /\ pc' = IF r.error = NoError THEN "import" ELSE "idle"

\* _refresh_calendar replaces the calendar by new_calendar.
CalendarReplaced(new_calendar, cready) ==
    CalendarStored(new_calendar, cready,
                   RenderAll(event_sensors, new_calendar, overrides, next_slot,
                             cready, now))

\* _refresh_calendar once the body is parsed into new_calendar.
CalendarParsed(new_calendar) ==
    /\ response' = "status_200"
    /\ swept' = "no"
    /\ parsed' = new_calendar
    /\ IF DiscardsParse(calendar, new_calendar)
       THEN /\ pc' = "import"
            /\ calls' = <<>>
            /\ raised' = NoError
            /\ UNCHANGED <<calendar, calendar_loaded, calendar_ready,
                           event, event_sensors>>
       ELSE CalendarReplaced(new_calendar,
                             IF overrides_loaded THEN TRUE ELSE calendar_ready)

\* _refresh_calendar: a 200 response whose body, one of feeds, parses.
FetchParsedFrom(feeds) ==
    /\ pc = "fetching"
    /\ \E feed \in feeds : CalendarParsed(IcalParser(feed, overrides, TRUE, now))
    /\ keymaster' \in LockAfter(keymaster, calls')
    /\ UNCHANGED <<store_vars, overrides_loaded, events_ready, next_refresh,
                   refresh_frequency, max_events, now, fn, config, fetched, push>>

FetchParsed == FetchParsedFrom(Feeds)

\* Fault variant of the closing test of update(): the sweep is run only by
\* the ticks that fetched.
SweepFollowsFetch(lock) == lock # "" /\ fetched

\* update() ends with the sweep when the coordinator has a store, which it
\* has when a lock is configured.
SweepFollows(lock) == lock # ""

\* update(): the startup import, the slots being in states of lock_states.
ImportFrom(lock_states) ==
    /\ pc = "import"
    /\ IF ~calendar_ready /\ lockname # ""
       THEN \E lock \in ImportReadings(lock_states) :
              Write(ImportLoop(Sorted(Slots), WriteState, lock,
                               calendar_loaded, now))
       ELSE UNCHANGED <<store_vars, calendar_ready, next_refresh>>
    /\ pc' = IF SweepFollows(lockname) THEN "sweep" ELSE "idle"
    /\ calls' = <<>>
    /\ raised' = NoError
    /\ response' = "none"
    /\ swept' = "no"
    /\ parsed' = <<>>
    /\ UNCHANGED <<calendar, calendar_loaded, overrides_loaded, events_ready,
                   event, event_sensors, refresh_frequency, max_events, now, fn, config, fetched, push, keymaster>>

Import == ImportFrom(LockStates)

\* The state async_check_overrides works on.
SweepState ==
    [overrides |-> overrides, next_slot |-> next_slot, ready |-> ready,
     sensors |-> event_sensors, calls |-> <<>>, error |-> NoError]

\* The coordinator and its store after async_check_overrides ended in st.
Swept(st) ==
    /\ overrides' = st.overrides
    /\ next_slot' = st.next_slot
    /\ ready' = st.ready
    /\ event_sensors' = st.sensors
    /\ calls' = st.calls
    /\ raised' = st.error

\* update(): the closing sweep.
Sweep ==
    /\ pc = "sweep"
    /\ Swept(CheckOverrides(SweepState, calendar_loaded, events_ready,
                            calendar, calendar_ready, now))
    /\ events_ready' = IF calendar_loaded
                       THEN EventsReady(events_ready, event_sensors)
                       ELSE events_ready
    /\ pc' = "idle"
    /\ response' = "none"
    /\ swept' = IF SweepSkipped(calendar_loaded, events_ready, event_sensors)
                THEN "skipped" ELSE "ran"
    /\ parsed' = <<>>
    /\ keymaster' \in LockAfter(keymaster, calls')
    /\ UNCHANGED <<calendar, calendar_loaded, calendar_ready, overrides_loaded,
                   event, next_refresh, refresh_frequency, max_events, now, fn, config, fetched, push>>

\* ------------------------------------------------------------------------
\* Other entry points
\* ------------------------------------------------------------------------

\* The steps that run while update() is not between its fetch and its end.
Interleaves == pc \in {"idle", "fetching"}

\* The sensor platform creates the max_events event sensors.
SetupSensors ==
    /\ Interleaves
    /\ event_sensors = <<>>
    /\ event_sensors' = [i \in 1..max_events |-> NewSensor]
    /\ calls' = <<>>
    /\ raised' = NoError
    /\ response' = "none"
    /\ swept' = "no"
    /\ parsed' = <<>>
    /\ UNCHANGED <<store_vars, calendar, calendar_loaded, calendar_ready,
                   overrides_loaded, events_ready, event, next_refresh,
                   refresh_frequency, max_events, now, pc, fn, config, fetched, push, keymaster>>

\* Sensor number i after its async_update ended in r.
Rendered(i, r) ==
    /\ event_sensors' = [event_sensors EXCEPT ![i] = r.sensor]
    /\ calls' = r.calls
    /\ raised' = r.error

\* Home Assistant polls event sensor number i.
SensorPoll(i) ==
    /\ Interleaves
    /\ i \in 1..Len(event_sensors)
    /\ Rendered(i, Render(event_sensors[i], i - 1, calendar, overrides,
                          next_slot, calendar_ready, now))
    /\ keymaster' \in LockAfter(keymaster, calls')
    /\ response' = "none"
    /\ swept' = "no"
    /\ parsed' = <<>>
    /\ UNCHANGED <<store_vars, calendar, calendar_loaded, calendar_ready,
                   overrides_loaded, events_ready, event, next_refresh,
                   refresh_frequency, max_events, now, pc, fn, config, fetched, push>>

\* Home Assistant polls one event sensor.
SensorUpdate == \E i \in 1..max_events : SensorPoll(i)

\* util.handle_state_change for a tracked entity of slot, the slot being in
\* a state of lock_states: the write, then AttributeError on
\* coordinator.new_event_overrides.
StateChangeFrom(lock_states) ==
    /\ Interleaves
    /\ \E slot \in Reporting :
         /\ \E l \in SlotReadings(slot, lock_states) :
               Write(UpdateEventOverrides(WriteState, slot, l.pin, l.name,
                                          l.start, l.end, calendar_loaded, now))
         /\ keymaster' = Heard(slot)
    /\ calls' = <<>>
    /\ raised' = "AttributeError"
    /\ response' = "none"
    /\ swept' = "no"
    /\ parsed' = <<>>
    /\ UNCHANGED <<calendar, calendar_loaded, overrides_loaded, events_ready,
                   event, event_sensors, refresh_frequency, max_events, now, pc, fn, config, fetched, push>>

StateChange == StateChangeFrom(FullLockStates)

\* Fault variant of the coordinator lookup of update_code_slot: the slot is
\* not held against the managed range.
ServiceAcceptsAnySlot(lock, slot) ==
    /\ ~(slot = 0 \/ lock = "")
    /\ lock = lockname

\* services.update_code_slot finds the coordinator for (lock, slot).
ServiceAccepts(lock, slot) ==
    /\ ~(slot = 0 \/ lock = "")
    /\ slot >= start_slot
    /\ slot < start_slot + max_events
    /\ lock = lockname

\* services.update_code_slot
UpdateCodeSlot ==
    /\ Interleaves
    /\ \E target \in ServiceTargets :
         IF ServiceAccepts(target[1], target[2])
         THEN \E d \in ServiceData :
                Write(UpdateEventOverrides(WriteState, target[2], d.pin,
                                           d.name, d.start, d.end,
                                           calendar_loaded, now))
         ELSE UNCHANGED <<store_vars, calendar_ready, next_refresh>>
    /\ calls' = <<>>
    /\ raised' = NoError
    /\ response' = "none"
    /\ swept' = "no"
    /\ parsed' = <<>>
    /\ UNCHANGED <<calendar, calendar_loaded, overrides_loaded, events_ready,
                   event, event_sensors, refresh_frequency, max_events, now, pc, fn, config, fetched, push, keymaster>>

\* Ten seconds pass.
Advance ==
    /\ Interleaves
    /\ now < DT(1, 0) + MaxTicks * TenSeconds
    /\ now' = now + TenSeconds
    /\ response' = "none"
    /\ swept' = "no"
    /\ parsed' = <<>>
    /\ calls' = <<>>
    /\ raised' = NoError
    /\ UNCHANGED <<store_vars, coord_vars, pc, fn, config, fetched, push, keymaster>>

Next ==
    \/ TickStart
    \/ FetchTimeout
    \/ FetchMalformed
    \/ FetchStatusError
    \/ FetchParsed
    \/ Import
    \/ Sweep
    \/ SetupSensors
    \/ SensorUpdate
    \/ StateChange
    \/ UpdateCodeSlot
    \/ Advance

Spec == Init /\ [][Next]_vars

TypeOK ==
    /\ DOMAIN overrides \subseteq Slots
    /\ next_slot \in Slots \cup {NoSlot}
    /\ ready \in BOOLEAN
    /\ pc \in {"idle", "fetching", "import", "sweep"}


\* ------------------------------------------------------------------------
\* The store on its own, for every configured size
\* ------------------------------------------------------------------------

\* Names written to a slot of the store; <<>> is the write that clears it.
StoreNames == {<<>>, <<"A">>}

\* EventOverrides(start_slot, max_slots) for each size within the bounds.
InitStore ==
    /\ CoordinatorInit
    /\ max_events = MaxEventsSmall
    /\ config = EntryConfig
    /\ keymaster = Unobserved
    /\ push = IdlePush
    /\ fn \in {[start_slot |-> s, max_slots |-> m, store |-> NewStore] :
                 s \in 1..MaxStart, m \in 1..MaxSlots}

\* EventOverrides.update on the store of fn.
StoreWrite ==
    /\ \E slot \in ManagedRange(fn.start_slot, fn.max_slots), name \in StoreNames :
         fn' = [fn EXCEPT !.store =
                   StoreUpdate(fn.store, slot, "1234", name, DT(1, checkin),
                               DT(3, checkout), event_prefix, fn.start_slot,
                               fn.max_slots)]
    /\ UNCHANGED <<store_vars, coord_vars, now, pc, response, parsed, calls,
                   raised, swept, config, fetched, push, keymaster>>

NextStore == StoreWrite

SpecStore == InitStore /\ [][NextStore]_vars

\* EventOverrides(start_slot, max_slots) for each size within the bounds,
\* start_slot 0 included.
InitStoreFromZero ==
    /\ CoordinatorInit
    /\ max_events = MaxEventsSmall
    /\ config = EntryConfig
    /\ keymaster = Unobserved
    /\ push = IdlePush
    /\ fn \in {[start_slot |-> s, max_slots |-> m, store |-> NewStore] :
                 s \in 0..MaxStart, m \in 1..MaxSlots}

SpecStoreFromZero == InitStoreFromZero /\ [][NextStore]_vars

\* Arguments of EventOverrides.update: the slot is drawn by the caller, the
\* identity comes with or without the prefix, the prefix may be empty.
WriteArgs(slots) ==
    [slot : slots,
     slot_code : {"1234", ""},
     slot_name : {<<>>, <<"A">>, <<"P", " ", "A">>, <<"P", " ">>},
     start_time : {DT(1, checkin)},
     end_time : {DT(3, checkout), DT(1, checkin)},
     prefix : {<<"P">>, <<>>}]

\* No call of EventOverrides.update yet.
NoArgs == [slot |-> NoSlot]

\* EventOverrides(start_slot, max_slots), with the arguments of the last
\* call of update kept in fn.args.
InitWrite ==
    /\ CoordinatorInit
    /\ max_events = MaxEventsSmall
    /\ config = EntryConfig
    /\ keymaster = Unobserved
    /\ push = IdlePush
    /\ fn = [start_slot |-> start_slot, max_slots |-> MaxEventsSmall,
             store |-> NewStore, args |-> NoArgs]

\* EventOverrides.update with any arguments.
StoreWriteArgs ==
    /\ \E a \in WriteArgs(ManagedRange(fn.start_slot, fn.max_slots)) :
         fn' = [fn EXCEPT !.args = a,
                          !.store =
                   StoreUpdate(fn.store, a.slot, a.slot_code, a.slot_name,
                               a.start_time, a.end_time, a.prefix,
                               fn.start_slot, fn.max_slots)]
    /\ UNCHANGED <<store_vars, coord_vars, now, pc, response, parsed, calls,
                   raised, swept, config, fetched, push, keymaster>>

NextWrite == StoreWriteArgs

SpecWrite == InitWrite /\ [][NextWrite]_vars

\* ------------------------------------------------------------------------
\* An entry with three slots: startup, a booked calendar, then slot changes
\* ------------------------------------------------------------------------

\* At startup no slot of the lock has been given a value.
BlankLockStates ==
    {LockState("unknown", <<"unknown">>, FALSE, NoTime, NoTime)}

\* Afterwards a slot is set to a guest of the calendar whose dates have
\* lapsed, or to a guest the calendar does not know.
ChangedLockStates ==
    { LockState("1234", <<"A">>, TRUE, DT(0, checkin), DT(0, checkout)),
      LockState("1234", <<"C">>, FALSE, DT(1, 0), DT(2, 0)) }

\* The calendar has two reservations.
BookedFeeds == {<<Entry(<<"B">>, 3, 5), Entry(<<"A">>, 1, 3)>>}

InitSweep ==
    /\ CoordinatorInit
    /\ max_events = MaxEventsSweep
    /\ config = EntryConfig
    /\ keymaster = Unobserved
    /\ Aside

FetchBooked == FetchParsedFrom(BookedFeeds)

ImportBlank == ImportFrom(BlankLockStates)

StateChangeAfterStartup == StateChangeFrom(ChangedLockStates)

NextSweep ==
    \/ SetupSensors
    \/ TickStart
    \/ FetchBooked
    \/ ImportBlank
    \/ Sweep
    \/ StateChangeAfterStartup

SpecSweep == InitSweep /\ [][NextSweep]_vars

\* ------------------------------------------------------------------------
\* Every setting of the options, a feed with a blocked period
\* ------------------------------------------------------------------------

\* The settings of ignore_non_reserved, should_update_code and
\* code_generation an entry can have.
Configs ==
    [ignore_non_reserved : BOOLEAN, should_update_code : BOOLEAN,
     code_generator : {"date_based", "static_random", "last_four"},
     event_prefix : {<<"P">>}, refresh_frequency : {0, 2}]

\* A reservation whose dates move from one fetch to the next, and a period
\* the owner has blocked.
OptionFeeds ==
    { <<Entry(<<"A">>, 1, 3)>>,
      <<Entry(<<"A">>, 3, 5)>>,
      <<Entry(<<"A">>, 0, 3)>>,
      <<Entry(<<"A">>, 0, 5)>>,
      <<Entry(<<"Blocked">>, 1, 3)>> }

InitOptions ==
    /\ CoordinatorInit
    /\ max_events = MaxEventsSmall
    /\ config \in {c \in Configs : c.refresh_frequency = refresh_frequency}
    /\ keymaster = Unobserved
    /\ Aside

FetchOptions == FetchParsedFrom(OptionFeeds)

NextOptions ==
    \/ SetupSensors
    \/ TickStart
    \/ FetchOptions
    \/ ImportBlank
    \/ Sweep
    \/ SensorUpdate

SpecOptions == InitOptions /\ [][NextOptions]_vars

\* ------------------------------------------------------------------------
\* A reservation that is extended while its slot is assigned
\* ------------------------------------------------------------------------

\* The guest of the calendar stays two days longer from one fetch to the
\* next.
ShiftFeeds == {<<Entry(<<"A">>, 1, 3)>>, <<Entry(<<"A">>, 1, 5)>>}

\* A slot is set to the guest of the calendar with the dates first booked,
\* or to a guest the calendar does not know.
ShiftLockStates ==
    { LockState("1234", <<"A">>, TRUE, DT(1, checkin), DT(3, checkout)),
      LockState("1234", <<"C">>, FALSE, DT(1, 0), DT(2, 0)) }

FetchShift == FetchParsedFrom(ShiftFeeds)

StateChangeShift == StateChangeFrom(ShiftLockStates)

NextShift ==
    \/ SetupSensors
    \/ TickStart
    \/ FetchShift
    \/ ImportBlank
    \/ Sweep
    \/ SensorUpdate
    \/ StateChangeShift
    \/ Advance

SpecShift == Init /\ [][NextShift]_vars

\* ------------------------------------------------------------------------
\* A slot whose date range is set the wrong way round on the lock
\* ------------------------------------------------------------------------

\* A slot is set to the guest of the calendar with its start after its end:
\* on one calendar date, or on a later date than the end.
ReversedLockStates ==
    { LockState("1234", <<"A">>, TRUE, DT(2, checkin), DT(2, checkout)),
      LockState("1234", <<"A">>, TRUE, DT(3, checkin), DT(2, checkout)) }

StateChangeReversed == StateChangeFrom(ReversedLockStates)

NextReversed ==
    \/ SetupSensors
    \/ TickStart
    \/ FetchShift
    \/ ImportBlank
    \/ Sweep
    \/ SensorUpdate
    \/ StateChangeReversed
    \/ Advance

SpecReversed == Init /\ [][NextReversed]_vars

\* ------------------------------------------------------------------------
\* update() entered by more than one caller
\* ------------------------------------------------------------------------

\* The callers of update() that run as coroutines of their own: the poll of
\* the calendar entity and the set-up of the sensor platform.
MaxCallers == 2

\* No call of update() is suspended behind the one pc follows.
InitCallers ==
    /\ CoordinatorInit
    /\ max_events = MaxEventsSmall
    /\ config = EntryConfig
    /\ keymaster = Unobserved
    /\ push = IdlePush
    /\ fn = [parked |-> 0]

\* The steps of the coroutines that leave the store, the calendar and the
\* sensors alone.
Scheduled ==
    /\ calls' = <<>>
    /\ raised' = NoError
    /\ response' = "none"
    /\ swept' = "no"
    /\ parsed' = <<>>
    /\ UNCHANGED <<store_vars, coord_vars, now, config, push, keymaster>>

\* A call of update() stays suspended in `await session.get(self.url)` while
\* the event loop runs another caller; pc follows that caller from here.
FetchSuspended ==
    /\ pc = "fetching"
    /\ fn.parked < MaxCallers - 1
    /\ fn' = [fn EXCEPT !.parked = @ + 1]
    /\ pc' = "idle"
    /\ UNCHANGED fetched
    /\ Scheduled

\* The response of a suspended call arrives once the caller that pc followed
\* has left update(); pc follows the resumed call.
FetchResumed ==
    /\ pc = "idle"
    /\ fn.parked > 0
    /\ fn' = [fn EXCEPT !.parked = @ - 1]
    /\ pc' = "fetching"
    /\ fetched' = TRUE
    /\ Scheduled

\* The fetches awaiting their response.
FetchesInFlight == fn.parked + (IF pc = "fetching" THEN 1 ELSE 0)

NextCallers ==
    \/ SetupSensors
    \/ TickStart
    \/ FetchShift
    \/ ImportBlank
    \/ Sweep
    \/ SensorUpdate
    \/ StateChangeShift
    \/ FetchSuspended
    \/ FetchResumed
    \/ Advance

SpecCallers == InitCallers /\ [][NextCallers]_vars

\* ------------------------------------------------------------------------
\* Parsing: feeds with DATE and DATE-TIME values, inside and outside the
\* window, with and without DTEND
\* ------------------------------------------------------------------------

\* A VEVENT whose DTSTART and DTEND are DATE-TIME values.
TimedEntry(summary, dtstart, dtend) ==
    [summary |-> summary, description |-> <<>>,
     dtstart |-> dtstart, dtend |-> dtend,
     has_time |-> TRUE, has_end |-> TRUE, rrule |-> FALSE]

\* An all-day VEVENT on day d1 without DTEND.
OpenEntry(summary, d1) ==
    [summary |-> summary, description |-> <<>>,
     dtstart |-> DT(d1, 0), dtend |-> DT(d1, 0),
     has_time |-> FALSE, has_end |-> FALSE, rrule |-> FALSE]

\* A VEVENT with a DATE-TIME DTSTART and no DTEND.
OpenTimedEntry(summary, dtstart) ==
    [summary |-> summary, description |-> <<>>,
     dtstart |-> dtstart, dtend |-> dtstart,
     has_time |-> TRUE, has_end |-> FALSE, rrule |-> FALSE]

\* The entries the feeds of the parsing checks are made of: two all-day
\* stays that start on the same day, a stay given with times, an all-day
\* entry that starts and ends on the same day, entries without DTEND, stays
\* beyond the window given with and without times, a stay on the last day of
\* the window, a stay that ended long ago, and a stay that ends ten seconds
\* into today.
ParsePool ==
    { Entry(<<"A">>, 1, 3),
      Entry(<<"B">>, 1, 4),
      TimedEntry(<<"C">>, DT(2, 14 * 60 * MinuteUnits), DT(5, 11 * 60 * MinuteUnits)),
      Entry(<<"D">>, 2, 2),
      OpenEntry(<<"E">>, 2),
      TimedEntry(<<"F">>, DT(400, 14 * 60 * MinuteUnits), DT(402, 11 * 60 * MinuteUnits)),
      Entry(<<"G">>, 400, 402),
      Entry(<<"H">>, 0 - 40, 0 - 35),
      Entry(<<"J">>, 1 + days, 3 + days),
      TimedEntry(<<"K">>, DT(0, 5 * MinuteUnits), DT(1, TenSeconds)),
      OpenTimedEntry(<<"L">>, DT(2, 14 * 60 * MinuteUnits)) }

\* The feeds of the parsing checks: up to two entries of a pool, in either
\* order.
FeedsOver(pool) ==
    {<<>>} \cup {<<a>> : a \in pool}
           \cup {<<ab[1], ab[2]>> : ab \in {p \in pool \X pool : p[1] # p[2]}}

ParseFeeds == FeedsOver(ParsePool)

\* The states of the lock's slots at startup: empty, or holding a guest of
\* the feed with times of the day that are not the configured ones.
ParseLockStates ==
    { Blank,
      LockState("1234", <<"A">>, TRUE, DT(1, 12 * 60 * MinuteUnits), DT(3, 10 * 60 * MinuteUnits)),
      LockState("1234", <<"D">>, TRUE, DT(2, 10 * 60 * MinuteUnits), DT(2, 12 * 60 * MinuteUnits)) }

\* _ical_parser raises KeyError on event["DTEND"]: an entry it does not skip
\* has a DATE-TIME DTSTART, no DTEND and no override.
EntryRaises(f, ov, has_store, from_date, to_date) ==
    /\ ~ParserSkips(f, from_date, to_date)
    /\ f.has_time
    /\ ~f.has_end
    /\ OverrideFor(SlotNameOf(f.summary, f.description, <<>>), ov, has_store) = None

\* _ical_parser at instant t raises.
ParserRaises(feed, ov, has_store, t) ==
    \E i \in 1..Len(feed) :
       EntryRaises(feed[i], ov, has_store, StartOfLocalDay(t),
                   StartOfLocalDay(t) + days * DayUnits)

InitParse ==
    /\ CoordinatorInit
    /\ max_events = MaxEventsSmall
    /\ config = EntryConfig
    /\ keymaster = Unobserved
    /\ Aside

\* _refresh_calendar: a 200 response whose body the parser goes through.
FetchParse ==
    FetchParsedFrom({feed \in ParseFeeds : ~ParserRaises(feed, overrides, TRUE, now)})

\* _refresh_calendar: a 200 response on whose body the parser raises;
\* KeyError leaves update().
FetchKeyError ==
    /\ pc = "fetching"
    /\ \E feed \in ParseFeeds : ParserRaises(feed, overrides, TRUE, now)
    /\ response' = "status_200"
    /\ swept' = "no"
    /\ raised' = "KeyError"
    /\ pc' = "idle"
    /\ parsed' = <<>>
    /\ calls' = <<>>
    /\ UNCHANGED <<store_vars, coord_vars, now, fn, config, fetched, push, keymaster>>

ImportParse == ImportFrom(ParseLockStates)

NextParse ==
    \/ TickStart
    \/ FetchParse
    \/ FetchKeyError
    \/ ImportParse
    \/ Sweep
    \/ Advance

SpecParse == InitParse /\ [][NextParse]_vars

\* ------------------------------------------------------------------------
\* The door code generator on its own, for every generator and length
\* ------------------------------------------------------------------------

\* The sensors _generate_door_code is called on: description, start, end,
\* _code_generator and _code_length.
CodeInputs ==
    [description : {<<>>, <<"x">>, <<"Last 4 Digits: 1234">>},
     start : {DT(0, checkin), DT(30, checkin), DT(305, checkin)},
     end : {DT(7, checkout), DT(31, checkout), DT(306, checkout)},
     generator : {"date_based", "static_random", "last_four"},
     code_length : {4, 6, 8, 16, 18}]

InitCode ==
    /\ CoordinatorInit
    /\ max_events = MaxEventsSmall
    /\ config = EntryConfig
    /\ keymaster = Unobserved
    /\ push = IdlePush
    /\ fn \in {[input |-> i, code |-> "", called |-> FALSE] : i \in CodeInputs}

\* _generate_door_code is called on the sensor of fn.
GenerateCode ==
    /\ \E code \in DoorCodes(fn.input.description, fn.input.start, fn.input.end,
                             fn.input.generator, fn.input.code_length) :
          fn' = [fn EXCEPT !.code = code, !.called = TRUE]
    /\ UNCHANGED <<store_vars, coord_vars, now, pc, response, parsed, calls,
                   raised, swept, fetched, config, push, keymaster>>

NextCode == GenerateCode

SpecCode == InitCode /\ [][NextCode]_vars

\* ------------------------------------------------------------------------
\* Reconfiguration: update_config between ticks and renders
\* ------------------------------------------------------------------------

\* The options update_config is called with: those of the entry with another
\* event prefix, or none, and another refresh frequency.
NewConfigs ==
    {[DefaultConfig EXCEPT !.event_prefix = p, !.refresh_frequency = f] :
       p \in {<<"P">>, <<"Q">>, <<>>}, f \in {0, 2, 30}}

\* Fault variant of update_config: the schedule is left as it was.
ConfigNextRefreshKept(t, nr) == nr

\* update_config: next_refresh = dt.now().
ConfigNextRefresh(t, nr) == t

\* _refresh_event_dict raises TypeError: the start of a stored event, a
\* datetime that _get_date hands back as it is, is compared with a date.
RefreshEventDictRaises(cal) == Len(cal) > 0

\* RentalControlCoordinator.update_config(new): the fields are set, then
\* the calendar is filtered, which raises unless it is empty.
UpdateConfigTo(new) ==
    /\ Interleaves
    /\ config' = new
    /\ refresh_frequency' = new.refresh_frequency
    /\ next_refresh' = ConfigNextRefresh(now, next_refresh)
    /\ raised' = IF RefreshEventDictRaises(calendar) THEN "TypeError" ELSE NoError
    /\ response' = "config"
    /\ swept' = "no"
    /\ parsed' = <<>>
    /\ calls' = <<>>
    /\ UNCHANGED <<store_vars, calendar, calendar_loaded, calendar_ready,
                   overrides_loaded, events_ready, event, event_sensors,
                   max_events, now, pc, fn, fetched, push, keymaster>>

UpdateConfig == \E new \in NewConfigs : UpdateConfigTo(new)

\* The feed has one reservation.
ConfigFeeds == {<<Entry(<<"A">>, 1, 3)>>}

InitConfig ==
    /\ CoordinatorInit
    /\ max_events = MaxEventsSmall
    /\ config = EntryConfig
    /\ keymaster = Unobserved
    /\ Aside

FetchConfig == FetchParsedFrom(ConfigFeeds)

NextConfig ==
    \/ SetupSensors
    \/ TickStart
    \/ FetchConfig
    \/ ImportBlank
    \/ Sweep
    \/ SensorUpdate
    \/ UpdateConfig
    \/ Advance

SpecConfig == InitConfig /\ [][NextConfig]_vars

\* ------------------------------------------------------------------------
\* One set-code push, service call by service call (util.py)
\* ------------------------------------------------------------------------

\* The six service calls that load the slot.
FieldWrites ==
    {"end_date", "start_date", "pin", "name", "daterange_on", "reset_off"}

\* Fault variant of the await: it returns when one of the calls has
\* completed.
AwaitedAny(cs, completed) == cs \cap completed # {}

\* await asyncio.gather(*coro) has returned: every call of cs, each made
\* with blocking=True, has completed.
Awaited(cs, completed) == cs \subseteq completed

\* What a step of the push leaves alone.
push_rest == <<store_vars, coord_vars, now, pc, response, parsed, calls,
               raised, swept, fetched, fn, config, keymaster>>

\* async_fire_set_code is called: the disable call is gathered.
PushStart ==
    /\ push.stage = "none"
    /\ push' = [push EXCEPT !.stage = "disabling", !.issued = {"disable"}]
    /\ UNCHANGED push_rest

\* One of the outstanding service calls completes.
CallCompletes ==
    /\ \E c \in push.issued \ (push.completed \cup push.failed) :
          push' = [push EXCEPT !.completed = @ \cup {c}]
    /\ UNCHANGED push_rest

\* One of the gathered service calls raises: gather hands the exception to
\* async_fire_set_code, which ends; the other calls stay under way.
CallRaises ==
    /\ push.stage \in {"disabling", "loading", "enabling"}
    /\ \E c \in push.issued \ (push.completed \cup push.failed) :
          push' = [push EXCEPT !.stage = "raised", !.failed = @ \cup {c}]
    /\ UNCHANGED push_rest

\* The disable call is awaited, then the six field writes are gathered.
PushLoad ==
    /\ push.stage = "disabling"
    /\ Awaited({"disable"}, push.completed)
    /\ push' = [push EXCEPT !.stage = "loading", !.issued = @ \cup FieldWrites]
    /\ UNCHANGED push_rest

\* The field writes are awaited, then the enable call is gathered.
PushEnable ==
    /\ push.stage = "loading"
    /\ Awaited(FieldWrites, push.completed)
    /\ push' = [push EXCEPT !.stage = "enabling", !.issued = @ \cup {"enable"}]
    /\ UNCHANGED push_rest

\* The enable call is awaited and async_fire_set_code returns.
PushEnd ==
    /\ push.stage = "enabling"
    /\ Awaited({"enable"}, push.completed)
    /\ push' = [push EXCEPT !.stage = "done"]
    /\ UNCHANGED push_rest

NextPush ==
    \/ PushStart
    \/ CallCompletes
    \/ CallRaises
    \/ PushLoad
    \/ PushEnable
    \/ PushEnd

SpecPush == Init /\ [][NextPush]_vars

\* ------------------------------------------------------------------------
\* Startup: ticks alone, the lock's slots in any of their states
\* ------------------------------------------------------------------------

\* The slots of the lock are in any of their states when the entry is set
\* up, and the import reads them as they are.
InitImport ==
    /\ CoordinatorInit
    /\ max_events = MaxEventsSmall
    /\ config = EntryConfig
    /\ keymaster \in {Observed([s \in Slots |-> Blank], read) : read \in [Slots -> LockStates]}
    /\ Aside

NextImport ==
    \/ SetupSensors
    \/ TickStart
    \/ FetchStatusError
    \/ FetchParsed
    \/ Import
    \/ Sweep
    \/ Advance

SpecImport == InitImport /\ [][NextImport]_vars

\* ------------------------------------------------------------------------
\* End to end: two reservations, a lock that reports what is written to it
\* ------------------------------------------------------------------------

\* When the entry is set up the slots of the lock hold nothing, and the
\* entities the startup import reads either hold nothing or do not exist.
StartupReadings ==
    {[s \in Slots |-> Blank],
     [s \in Slots |-> LockState(Missing, MissingName, FALSE, NoTime, NoTime)]}

InitLive ==
    /\ CoordinatorInit
    /\ max_events = MaxEventsSmall
    /\ config = EntryConfig
    /\ keymaster \in {Observed([s \in Slots |-> Blank], read) : read \in StartupReadings}
    /\ Aside

\* The lock reports the change of one of its slots.
StateChangeReported == StateChangeFrom({Blank})

NextLive ==
    \/ SetupSensors
    \/ TickStart
    \/ FetchBooked
    \/ Import
    \/ Sweep
    \/ SensorUpdate
    \/ StateChangeReported
    \/ Advance

\* update() moves on: the steps of update() are the steps that change pc,
\* and in every state one of them can be taken.
Tick == pc' \in {"idle", "fetching", "import", "sweep"} \ {pc}

\* The sensor platform has set the sensors up.
Platform ==
    /\ event_sensors = <<>>
    /\ event_sensors' = [i \in 1..max_events |-> NewSensor]

\* The change the lock reported for one of its slots has been handled.
Hears ==
    /\ keymaster.changed # {}
    /\ keymaster' \in {[keymaster EXCEPT !.changed = @ \ {slot}] : slot \in keymaster.changed}

\* Sensor number i has been rendered with calendar_ready true: the sensor
\* and the lock are as its async_update leaves them.
Polls(i) ==
    /\ i \in 1..Len(event_sensors)
    /\ calendar_ready
    /\ \E r \in {Render(event_sensors[i], i - 1, calendar, overrides, next_slot,
                         calendar_ready, now)} :
          /\ event_sensors' = [event_sensors EXCEPT ![i] = r.sensor]
          /\ keymaster' \in LockAfter(keymaster, r.calls)

\* Ticks keep occurring and run to their end, the platform sets the sensors
\* up, Home Assistant keeps polling each sensor, and every change the lock
\* reports is handled.
Fairness ==
    /\ WF_pc(Tick)
    /\ WF_event_sensors(Platform)
    /\ WF_keymaster(Hears)
    /\ \A i \in 1..MaxEventsSmall : WF_<<event_sensors, keymaster>>(Polls(i))

SpecLive == InitLive /\ [][NextLive]_vars /\ Fairness

\* ------------------------------------------------------------------------
\* End to end: one guest leaves the calendar, the next one enters it
\* ------------------------------------------------------------------------

\* The calendar holds the reservation of B, later the one of A.
TurnoverFeeds == {<<Entry(<<"B">>, 1, 3)>>, <<Entry(<<"A">>, 3, 5)>>}

FetchTurnover == FetchParsedFrom(TurnoverFeeds)

InitTurnover ==
    /\ CoordinatorInit
    /\ max_events = MaxEventsSmall
    /\ config = EntryConfig
    /\ keymaster \in {Observed([s \in Slots |-> Blank], read) : read \in StartupReadings}
    /\ Aside

NextTurnover ==
    \/ SetupSensors
    \/ TickStart
    \/ FetchTurnover
    \/ Import
    \/ Sweep
    \/ SensorUpdate
    \/ StateChangeReported
    \/ Advance

SpecTurnover == InitTurnover /\ [][NextTurnover]_vars

\* ------------------------------------------------------------------------
\* One sensor rendered twice over the same event and the same overrides
\* ------------------------------------------------------------------------

\* The event the sensor is given: a reservation still to come, and one that
\* has begun.
RenderEvents ==
    {EventAt(Entry(<<"A">>, 3, 5), checkin, checkout),
     EventAt(Entry(<<"A">>, 0, 3), checkin, checkout)}

\* What the attributes of the sensor hold before the first render.
RenderSensors ==
    {NewSensor,
     [available |-> TRUE, start |-> DT(3, checkin), end |-> DT(5, checkout),
      slot_name |-> <<"A">>],
     [available |-> TRUE, start |-> DT(3, checkin), end |-> DT(7, checkout),
      slot_name |-> <<"A">>],
     [available |-> TRUE, start |-> DT(3, checkin), end |-> DT(5, checkout),
      slot_name |-> <<"B">>]}

\* What a slot of the store holds.
RenderEntries ==
    {None,
     NewEntry("1234", <<"A">>, DT(3, checkin), DT(5, checkout), <<>>),
     NewEntry("", <<"A">>, DT(3, checkin), DT(5, checkout), <<>>),
     NewEntry("1234", <<"A">>, DT(3, checkin), DT(7, checkout), <<>>),
     NewEntry("1234", <<"A">>, DT(0, checkin), DT(3, checkout), <<>>),
     NewEntry("1234", <<"C">>, DT(3, checkin), DT(5, checkout), <<>>)}

\* The stores the renders read: every slot of the range has been reported.
RenderStores ==
    {Stored(NewStore, ov, start_slot, MaxEventsSmall) : ov \in [Slots -> RenderEntries]}

\* The slot_code attribute the sensor s ends a render over the table ov with.
RenderedCode(ov, s) == SlotCode(GetSlotWithName(ov, s.slot_name), s)

InitRender ==
    /\ CoordinatorInit
    /\ max_events = MaxEventsSmall
    /\ config \in {c \in Configs : c.refresh_frequency = refresh_frequency}
    /\ keymaster = Unobserved
    /\ push = IdlePush
    /\ fn \in {[sensor |-> s, slot_code |-> "", ev |-> e, store |-> st,
                renders |-> 0, was |-> s, was_code |-> ""] :
                 s \in RenderSensors, e \in RenderEvents, st \in RenderStores}

\* async_update of the sensor of fn, the calendar ready and the event its
\* own; the attributes it had before are kept aside.
RenderAgain ==
    /\ fn.renders < 2
    /\ \E r \in {Render(fn.sensor, 0, <<fn.ev>>, fn.store.overrides,
                        fn.store.next_slot, TRUE, now)} :
          /\ fn' = [fn EXCEPT !.was = fn.sensor,
                              !.was_code = fn.slot_code,
                              !.sensor = r.sensor,
                              !.slot_code = IF r.error = "IndexError" THEN @
                                            ELSE RenderedCode(fn.store.overrides,
                                                              r.sensor),
                              !.renders = @ + 1]
          /\ calls' = r.calls
          /\ raised' = r.error
    /\ UNCHANGED <<store_vars, coord_vars, now, pc, response, parsed, swept,
                   fetched, config, push, keymaster>>

NextRender == RenderAgain

SpecRender == InitRender /\ [][NextRender]_vars

\* ------------------------------------------------------------------------
\* An entry without a lock: the coordinator has no EventOverrides
\* ------------------------------------------------------------------------

\* async_update of sensor s with event number i at instant t when
\* coordinator.event_overrides is None.  The argument of the clear,
\* event_overrides.get_slot_key_by_name(...), is evaluated on None before
\* async_fire_clear_code is entered; the summary is all the render has
\* written by then.  Without overrides no set_code and no update_times
\* follows.
RenderUnlocked(s, i, cal, cready, t) ==
    IF ~cready THEN [sensor |-> s, calls |-> <<>>, error |-> NoError]
    ELSE IF i >= Len(cal)
    THEN [sensor |-> [NewSensor EXCEPT !.available = cready],
          calls |-> <<>>, error |-> NoError]
    ELSE IF RenderClears(s, cal[i + 1], t)
    THEN [sensor |-> s, calls |-> <<>>, error |-> "AttributeError"]
    ELSE IF GetSlotNameRaises(cal[i + 1].summary, event_prefix)
    THEN [sensor |-> [s EXCEPT !.start = cal[i + 1].start,
                               !.end = cal[i + 1].end],
          calls |-> <<>>, error |-> "IndexError"]
    ELSE [sensor |-> [available |-> cready,
                      start |-> cal[i + 1].start,
                      end |-> cal[i + 1].end,
                      slot_name |-> SlotNameOf(cal[i + 1].summary,
                                               cal[i + 1].description,
                                               event_prefix)],
          calls |-> <<>>, error |-> NoError]

\* The calendars the sensor is rendered over: empty, a reservation to come,
\* the same with a later end, and one under way.
UnlockedCalendars ==
    {<<>>,
     <<EventAt(Entry(<<"A">>, 3, 5), checkin, checkout)>>,
     <<EventAt(Entry(<<"A">>, 3, 7), checkin, checkout)>>,
     <<EventAt(Entry(<<"A">>, 0, 3), checkin, checkout)>>}

InitUnlocked ==
    /\ CoordinatorInit
    /\ max_events = MaxEventsSmall
    /\ config \in {c \in Configs : c.refresh_frequency = refresh_frequency}
    /\ keymaster = Unobserved
    /\ push = IdlePush
    /\ fn = [sensor |-> NewSensor, cal |-> <<>>, renders |-> 0]

\* The calendar has been refreshed to cal and the sensor is rendered over
\* it, calendar_ready being set: without a lock it is from the first fetch
\* that is stored.
RenderWithoutLock ==
    /\ fn.renders < 2
    /\ \E cal \in UnlockedCalendars :
        \E r \in {RenderUnlocked(fn.sensor, 0, cal, TRUE, now)} :
          /\ fn' = [fn EXCEPT !.sensor = r.sensor, !.cal = cal,
                              !.renders = @ + 1]
          /\ calls' = r.calls
          /\ raised' = r.error
    /\ UNCHANGED <<store_vars, coord_vars, now, pc, response, parsed, swept,
                   fetched, config, push, keymaster>>

NextUnlocked == RenderWithoutLock

SpecUnlocked == InitUnlocked /\ [][NextUnlocked]_vars

\* ------------------------------------------------------------------------
\* update_code_slot over several coordinators
\* ------------------------------------------------------------------------

\* The entries of hass.data[DOMAIN], in order: two on the front door lock
\* whose ranges share a slot, one on another lock with the range of the
\* first, and one without a lock.
ServiceCoordinators ==
    <<[lockname |-> lockname, start_slot |-> start_slot,
       max_events |-> MaxEventsSmall, has_store |-> TRUE],
      [lockname |-> lockname, start_slot |-> start_slot + 1,
       max_events |-> MaxEventsSmall, has_store |-> TRUE],
      [lockname |-> "backdoor", start_slot |-> start_slot,
       max_events |-> MaxEventsSmall, has_store |-> TRUE],
      [lockname |-> "", start_slot |-> start_slot,
       max_events |-> MaxEventsSmall, has_store |-> FALSE]>>

\* The lockname of a call, "" when it has none, and its slot, 0 when it
\* has none.
ServiceLocks == {"", lockname, "backdoor", "garage"}
ServiceSlots == {0} \cup ((start_slot - 1) .. (start_slot + MaxEventsSmall + 1))

\* The coordinator built from the settings c, its calendar loaded or not.
NewCoordinator(c, cloaded, t) ==
    [lockname |-> c.lockname, start_slot |-> c.start_slot,
     max_events |-> c.max_events, has_store |-> c.has_store,
     store |-> NewStore, calendar_loaded |-> cloaded,
     calendar_ready |-> FALSE, next_refresh |-> t]

\* The store fields of a write.
StoreOf(w) ==
    [overrides |-> w.overrides, next_slot |-> w.next_slot, ready |-> w.ready]

\* rc.update_event_overrides(slot, ...) with the data d at instant t.
UpdateOn(rc, slot, d, t) ==
    IF rc.has_store
    THEN CHOOSE after \in
           {[rc EXCEPT !.store = StoreOf(w),
                       !.calendar_ready = w.calendar_ready,
                       !.next_refresh = w.next_refresh] :
              w \in {Written(rc,
                             StoreUpdate(rc.store, slot, d.pin, d.name,
                                         d.start, d.end, event_prefix,
                                         rc.start_slot, rc.max_events),
                             rc.calendar_loaded, t)}} : TRUE
    ELSE [rc EXCEPT !.calendar_ready = IF rc.calendar_loaded THEN TRUE ELSE @,
                    !.next_refresh = t]

\* Fault variant of the coordinator test of update_code_slot: the lockname
\* is not compared.
MatchesByRange(rc, lock, slot) ==
    /\ slot >= rc.start_slot
    /\ slot < rc.start_slot + rc.max_events

\* The coordinator test of the search loop of update_code_slot.
Matches(rc, lock, slot) ==
    /\ slot >= rc.start_slot
    /\ slot < rc.start_slot + rc.max_events
    /\ lock = rc.lockname

\* The place of the coordinator the loop stops at, 0 when it stops at none.
Found(rcs, lock, slot) ==
    IF \E k \in 1..Len(rcs) : Matches(rcs[k], lock, slot)
    THEN Min({k \in 1..Len(rcs) : Matches(rcs[k], lock, slot)})
    ELSE 0

\* services.update_code_slot called with (lock, slot) and the data d: the
\* coordinators afterwards.
Served(rcs, lock, slot, d, t) ==
    IF slot = 0 \/ lock = "" THEN rcs
    ELSE IF Found(rcs, lock, slot) = 0 THEN rcs
    ELSE [rcs EXCEPT ![Found(rcs, lock, slot)] = UpdateOn(@, slot, d, t)]

NoRequest == [lockname |-> "", slot |-> 0]

InitService ==
    /\ CoordinatorInit
    /\ max_events = MaxEventsSmall
    /\ config = EntryConfig
    /\ keymaster = Unobserved
    /\ push = IdlePush
    /\ \E cloaded \in BOOLEAN :
          fn = [rcs |-> [k \in 1..Len(ServiceCoordinators) |->
                            NewCoordinator(ServiceCoordinators[k], cloaded, now)],
                request |-> NoRequest]

\* The update_code_slot service is called.
ServiceCalled ==
    /\ Interleaves
    /\ \E lock \in ServiceLocks, slot \in ServiceSlots, d \in ServiceData :
          fn' = [rcs |-> Served(fn.rcs, lock, slot, d, now),
                 request |-> [lockname |-> lock, slot |-> slot]]
    /\ UNCHANGED <<store_vars, coord_vars, now, pc, response, parsed, calls,
                   raised, swept, fetched, config, push, keymaster>>

NextService == ServiceCalled \/ Advance

SpecService == InitService /\ [][NextService]_vars

\* ------------------------------------------------------------------------
\* Settling: readable slots, fetches that succeed from some instant on
\* ------------------------------------------------------------------------

\* The calendar holds one reservation, A from day 1 to day 5.
SettleFeeds == {<<Entry(<<"A">>, 1, 5)>>}

\* What the entities the startup import reads hold for a slot: nothing, the
\* reservation A with the dates of the calendar, or A with the end it had
\* before the stay was extended.  Each has a state for the PIN and the name.
SettleLockStates ==
    {Blank,
     LockState("1234", <<"A">>, TRUE, DT(1, checkin), DT(5, checkout)),
     LockState("1234", <<"A">>, TRUE, DT(1, checkin), DT(3, checkout))}

InitSettle ==
    /\ CoordinatorInit
    /\ max_events = MaxEventsSmall
    /\ config = EntryConfig
    /\ keymaster \in {Observed([s \in Slots |-> Blank], read) : read \in [Slots -> SettleLockStates]}
    /\ Aside

\* A fetch before the first instant has passed can end in a status other
\* than 200; the store is then ready before a calendar is loaded.
FetchEarlyError == now = DT(1, 0) /\ FetchStatusError

FetchSettle == FetchParsedFrom(SettleFeeds)

NextSettle ==
    \/ SetupSensors
    \/ TickStart
    \/ FetchEarlyError
    \/ FetchSettle
    \/ Import
    \/ Sweep
    \/ SensorUpdate
    \/ StateChangeReported
    \/ Advance

\* Time passes.
Passes == now < DT(1, 0) + MaxTicks * TenSeconds /\ now' = now + TenSeconds

\* Ticks, sensor polls and the listener keep running, and time passes.
SettleFairness == Fairness /\ WF_now(Passes)

SpecSettle == InitSettle /\ [][NextSettle]_vars /\ SettleFairness

\* ------------------------------------------------------------------------
\* Properties
\* ------------------------------------------------------------------------

\* The slots of a table that hold an override.
Occupied(ov) == {k \in DOMAIN ov : ov[k] # None}

\* The number of reset calls among cs that name slot.
ResetCount(cs, slot) ==
    Cardinality({i \in 1..Len(cs) : cs[i].op = "reset" /\ cs[i].slot = slot})

\* C1: once the store is ready, its keys are exactly the managed range
\* [start_slot, start_slot + max_slots): one entry per slot in range and no
\* key outside it, whatever writes, service calls, sweeps and ticks follow.
C1_KeysAreManagedRange == ready => DOMAIN overrides = Slots

\* A sweep has cleared a slot of a ready store.
C1_Witness ==
    /\ ready
    /\ swept = "ran"
    /\ \E i \in 1..Len(calls) : calls[i].op = "reset" /\ calls[i].by = "sweep"

\* C2: ready never goes back to false, and it becomes true on the step
\* whose write brings the number of entries to max_slots, not before.
C2_ReadyLatches ==
    [][/\ ready => ready'
       /\ (~ready /\ ready') =>
             /\ Cardinality(DOMAIN overrides) < max_events
             /\ Cardinality(DOMAIN overrides') = max_events
       /\ ~ready' => Cardinality(DOMAIN overrides') < max_events]_vars

\* The store is ready and a sweep has since cleared one of its slots.
C2_Witness ==
    /\ ready
    /\ swept = "ran"
    /\ \E k \in DOMAIN overrides : overrides[k] = None /\ ResetCount(calls, k) > 0

\* C3: next_slot is None or a slot of the managed range whose entry is the
\* cleared placeholder; it never names an occupied slot.
C3_NextSlotIsFree ==
    \/ next_slot = NoSlot
    \/ /\ next_slot \in Slots
       /\ next_slot \in DOMAIN overrides
       /\ overrides[next_slot] = None

\* next_slot names a free slot below an occupied one.
C3_Witness ==
    /\ next_slot # NoSlot
    /\ \E k \in Occupied(overrides) : k > next_slot

\* C4: for every start_slot >= 1 and max_slots, once the store has an entry
\* for each slot in range, next_slot after a write is None when every slot
\* is occupied; else the smallest free slot above the largest occupied slot
\* (start_slot when none is occupied); else the smallest free slot in range.
C4_NextFreeSlot ==
    LET range == ManagedRange(fn.start_slot, fn.max_slots)
        occ == Occupied(fn.store.overrides)
        free == range \ occ
        above == {k \in free : k > Max(occ)}
    IN DOMAIN fn.store.overrides = range =>
         fn.store.next_slot =
            IF free = {} THEN NoSlot
            ELSE IF occ = {} THEN fn.start_slot
            ELSE IF above # {} THEN Min(above)
            ELSE Min(free)

\* start_slot = 10, max_slots = 3, occupied {10, 12}: next_slot is 11.
C4_Witness ==
    /\ fn.start_slot = 10
    /\ fn.max_slots = 3
    /\ DOMAIN fn.store.overrides = 10..12
    /\ Occupied(fn.store.overrides) = {10, 12}
    /\ fn.store.next_slot = 11

\* C5 (as claimed): a sweep that is not skipped clears every occupied override whose name
\* is not among the slot names of the event sensors: the slot's entry is
\* the cleared placeholder afterwards (the key stays) and the sweep issued
\* exactly one reset for that slot.
C5_SweepClearsStale ==
    [][(/\ pc = "sweep"
        /\ calendar_loaded
        /\ (events_ready \/ (/\ Len(event_sensors) = max_events
                              /\ \A i \in 1..Len(event_sensors) :
                                    event_sensors[i].available)))
       => \A slot \in Occupied(overrides) :
            overrides[slot].slot_name \notin GetEventNames(event_sensors)
            => /\ slot \in DOMAIN overrides'
               /\ overrides'[slot] = None
               /\ ResetCount(calls', slot) = 1]_vars

\* C6: while calendar_loaded is false or events_ready is false, the sweep is
\* a no-op: no reset is issued, no override and no next_slot changes and no
\* sensor is rendered again.
C6_SkippedSweepIsNoOp ==
    [][(/\ pc = "sweep"
        /\ \/ ~calendar_loaded
           \/ ~(events_ready \/ (/\ Len(event_sensors) = max_events
                                 /\ \A i \in 1..Len(event_sensors) :
                                       event_sensors[i].available)))
       => /\ UNCHANGED <<overrides, next_slot, ready, event_sensors>>
          /\ calls' = <<>>]_vars

\* A sweep was skipped, with the calendar loaded and a slot occupied, because
\* the event sensors were not ready.
C6_Witness ==
    /\ swept = "skipped"
    /\ calendar_loaded
    /\ Occupied(overrides) # {}

\* C7: a parsed fetch result with no event is discarded exactly when the
\* stored calendar has more than one event: the list stays and calendar_loaded
\* is not set by this fetch; every other parsed result replaces the list and
\* sets calendar_loaded.
C7_AntiFlap ==
    [][(pc = "fetching" /\ response' = "status_200")
       => IF Len(calendar) > 1 /\ Len(parsed') = 0
          THEN UNCHANGED <<calendar, calendar_loaded>>
          ELSE calendar' = parsed' /\ calendar_loaded']_vars

\* An empty parse result was discarded in favour of a stored two-event list.
C7_Witness ==
    /\ response = "status_200"
    /\ parsed = <<>>
    /\ Len(calendar) > 1

\* C8: on a non-200 response the fetch raises nothing, the tick goes on, the
\* calendar and calendar_loaded are what they were, and next_refresh is left
\* as the tick set it, so that the next due tick fetches again.
C8_StatusErrorRecoverable ==
    [][response' = "status_error"
       => /\ raised' = NoError
          /\ pc' = "import"
          /\ UNCHANGED <<calendar, calendar_loaded, next_refresh>>]_vars

\* A coordinator that never loaded got a non-200 response.
C8_Witness ==
    /\ response = "status_error"
    /\ ~calendar_loaded
    /\ pc = "import"

\* C9 (as claimed): on expiry of the fetch timeout the tick raises nothing,
\* the calendar and calendar_loaded are unchanged and the tick goes on to
\* the startup import and the sweep.
C9_TimeoutRecoverable ==
    [][response' = "timeout"
       => /\ raised' = NoError
          /\ pc' = "import"
          /\ UNCHANGED <<calendar, calendar_loaded>>]_vars

SetCodes(cs) == {k \in 1..Len(cs) : cs[k].op = "set_code"}

\* The event sensors that have an event of the calendar.
Booked == 1..(IF Len(calendar) < Len(event_sensors) THEN Len(calendar) ELSE Len(event_sensors))

\* The slot name derived from event number i of the calendar.
EventName(i) ==
    SlotNameOf(calendar[i].summary, calendar[i].description, event_prefix)

\* The set-code pushes among calls that carry event number i of the
\* calendar: its slot name, start, end and date code.
PushesFor(i) ==
    {k \in SetCodes(calls) :
        /\ calls[k].slot_name = EventName(i)
        /\ calls[k].start = calendar[i].start
        /\ calls[k].end = calendar[i].end
        /\ calls[k].slot_code = GenerateDoorCode(calendar[i].start, calendar[i].end)}

\* An occupied override carries the slot name of event number i.
Assigned(i) ==
    \E k \in Occupied(overrides) : overrides[k].slot_name = EventName(i)

\* The latest step ended a fetch that stored the calendar and rendered
\* every sensor with calendar_ready true.
FetchRendered ==
    /\ response = "status_200"
    /\ calendar = parsed
    /\ calendar_ready

\* The latest step rendered against the store and the calendar it left: it
\* was not a sweep that cleared more than one slot.
OneRound ==
    Cardinality({k \in 1..Len(calls) : calls[k].op = "reset" /\ calls[k].by = "sweep"}) <= 1

\* C12: on a render with calendar_ready true and a lock configured, an
\* event whose slot name has no occupied override gets exactly one set-code
\* push, carrying its start, end, code and slot name, to the slot that is
\* next_slot at that moment; an event whose slot name has an occupied
\* override gets no set-code push.
C12_SetCodeForUnassigned ==
    /\ OneRound =>
          \A k \in SetCodes(calls) :
             /\ calendar_ready
             /\ calls[k].slot = next_slot
             /\ \E i \in Booked : k \in PushesFor(i) /\ ~Assigned(i)
    /\ FetchRendered =>
          \A i \in Booked :
             IF Assigned(i)
             THEN \A k \in SetCodes(calls) : calls[k].slot_name # EventName(i)
             ELSE Cardinality(PushesFor(i)) = 1

\* A fetch rendered two events: the one without an override was pushed to
\* next_slot, the one with an override was not pushed.
C12_Witness ==
    /\ FetchRendered
    /\ next_slot \in Slots
    /\ \E i \in Booked : ~Assigned(i) /\ PushesFor(i) # {}
    /\ \E i \in Booked : Assigned(i) /\ raised = NoError

\* The slots the sweep of the latest step cleared.
SweepClears(cs) ==
    {cs[k].slot : k \in {j \in 1..Len(cs) : cs[j].op = "reset" /\ cs[j].by = "sweep"}}

\* C19: the set of slot numbers that have an entry in the store never
\* shrinks: no write, sweep clear, service call or tick removes a key, and
\* a slot the sweep clears keeps its key, with the cleared placeholder as
\* its entry.
C19_KeysNeverRemoved ==
    [][/\ DOMAIN overrides \subseteq DOMAIN overrides'
       /\ \A slot \in SweepClears(calls') :
             slot \in DOMAIN overrides' /\ overrides'[slot] = None]_vars

\* The sweep cleared a slot that held an override: the slot still has its
\* entry, the placeholder.
C19_Witness ==
    /\ swept = "ran"
    /\ \E slot \in SweepClears(calls) :
          slot \in DOMAIN overrides /\ overrides[slot] = None

TimeUpdatesFor(slot, i) ==
    {k \in 1..Len(calls) :
        /\ calls[k].op = "update_times"
        /\ calls[k].slot = slot
        /\ calls[k].start = calendar[i].start
        /\ calls[k].end = calendar[i].end}

\* C15 (as claimed): when an occupied override exists for the slot name of
\* the rendered event and its start date or end date differs from the
\* event's, the render issues the update-times call, with the event's start
\* and end, to the slot that holds the name, and no set-code; when both
\* dates match it issues neither call.
C15_UpdateTimesOnDateChange ==
    FetchRendered =>
       \A i \in Booked :
          Assigned(i) =>
             LET slot == GetSlotKeyByName(overrides, EventName(i))
             IN /\ \A k \in SetCodes(calls) : calls[k].slot_name # EventName(i)
                /\ IF \/ DateOf(overrides[slot].start_time) # DateOf(calendar[i].start)
                      \/ DateOf(overrides[slot].end_time) # DateOf(calendar[i].end)
                   THEN TimeUpdatesFor(slot, i) # {}
                   ELSE TimeUpdatesFor(slot, i) = {}

\* The entry of slot s in the store, or its absence, is what it was.
EntryKept(s) ==
    /\ (s \in DOMAIN overrides') <=> (s \in DOMAIN overrides)
    /\ s \in DOMAIN overrides => overrides'[s] = overrides[s]

\* The step is a run of the startup import that read the slots of the
\* lock as lock.
ImportRead(lock) ==
    /\ pc = "import"
    /\ ~calendar_ready
    /\ Write(ImportLoop(Sorted(Slots), WriteState, lock, calendar_loaded, now))

\* The date range of the slot is enabled and its start or end is missing or
\* does not parse.
RangeUnreadable(l) == l.use_range /\ (l.start = NoTime \/ l.end = NoTime)

\* C17 (as claimed): during the startup import, for a slot whose PIN or
\* display-name state is missing or unavailable, or whose enabled date
\* range has a missing or unparseable start or end, no override is written
\* for that slot in that tick.
C17_ImportSkipsUnavailable ==
    [][\A lock \in {keymaster.read} :
          ImportRead(lock) =>
             \A s \in Slots :
                (\/ lock[s].pin \in {Missing, "unknown", "unavailable"}
                 \/ lock[s].name \in {MissingName, <<"unknown">>, <<"unavailable">>}
                 \/ RangeUnreadable(lock[s]))
                   => EntryKept(s)]_vars

\* C17: during the startup import, a slot whose PIN or display-name state
\* does not exist, or whose enabled date range has a missing or unparseable
\* start or end, is left as it was, and every other slot of the range is
\* written: a state of "unknown" or "unavailable" is read as empty, so that
\* such a name gives the slot the cleared placeholder and such a PIN an
\* empty code.  The import runs over the whole range on every tick that
\* reaches it with calendar_ready false, and on no other tick.
C17_ImportSkipsMissing ==
    [][/\ (pc = "import" /\ ~calendar_ready)
            => ImportRead(keymaster.read)
       /\ (pc = "import" /\ calendar_ready) => UNCHANGED <<overrides, next_slot, ready>>
       /\ \A lock \in {keymaster.read} :
             ImportRead(lock) =>
                \A s \in Slots :
                   IF \/ lock[s].pin = Missing
                      \/ lock[s].name = MissingName
                      \/ RangeUnreadable(lock[s])
                   THEN EntryKept(s)
                   ELSE /\ s \in DOMAIN overrides'
                        /\ IF lock[s].name \in {<<"unknown">>, <<"unavailable">>}
                           THEN overrides'[s] = None
                           ELSE /\ overrides'[s] # None
                                /\ overrides'[s].slot_code =
                                      (IF lock[s].pin \in {"unknown", "unavailable"}
                                       THEN "" ELSE lock[s].pin)]_vars

\* The startup import has left the first slot of the range without an
\* entry and has written an override to the second.
C17_Witness ==
    /\ pc = "sweep"
    /\ ~calendar_ready
    /\ start_slot \notin DOMAIN overrides
    /\ (start_slot + 1) \in Occupied(overrides)

\* The calendar holds the two reservations in start order, the store is
\* ready and each slot holds the override of one of the two.
EndToEnd ==
    /\ ready
    /\ Len(calendar) = 2
    /\ calendar[1].start <= calendar[2].start
    /\ EventName(1) # EventName(2)
    /\ Occupied(overrides) = Slots
    /\ {overrides[k].slot_name : k \in Occupied(overrides)} = {EventName(1), EventName(2)}

\* C18 (as claimed): with max_slots = 2, date_based generation, a feed of
\* two future events without descriptions, a lock that reports every slot
\* write back as a state change and ticks that keep occurring, eventually
\* ready is true, the calendar holds the two events in start order and the
\* store holds two occupied overrides named after the two events, each in
\* its own slot; and this then stays so.
C18_EndToEnd == <>[]EndToEnd

\* The startup import finds a state for the PIN and the name of every slot.
Readable == \A s \in Slots : ~ImportSkips(keymaster.read[s])

\* C18: under the same conditions, and when the entities the startup import
\* reads exist for every slot, eventually ready is true, the calendar holds
\* the two events in start order and the store holds two occupied overrides
\* named after the two events, each in its own slot; and this then stays
\* so.
C18_EndToEndWhenReadable == (keymaster.on /\ Readable) => <>[]EndToEnd

\* The import could read the slots, and the two reservations have their
\* overrides.
C18_Witness ==
    /\ keymaster.on
    /\ Readable
    /\ EndToEnd
    /\ pc = "idle"
    /\ keymaster.changed = {}

\* C13: in a set-code push the disable call has completed before any of
\* the six field writes is issued, and the enable call is issued only when
\* every field write has completed: the slot is never enabled while a field
\* write of the push is outstanding.
C13_PushOrder ==
    /\ push.issued \cap FieldWrites # {} => "disable" \in push.completed
    /\ "enable" \in push.issued => FieldWrites \subseteq push.completed

\* The enable call of a push is under way, after its six field writes.
C13_Witness ==
    /\ push.stage = "enabling"
    /\ "enable" \in push.issued \ push.completed
    /\ FieldWrites \subseteq push.completed

\* The clears the renders of the latest step issued.
RenderClearCalls(cs) ==
    {k \in 1..Len(cs) : cs[k].op = "reset" /\ cs[k].by = "render"}

\* C14 (as claimed): a render issues the external clear for an event only
\* when the event's start is in the future and its start or end differs
\* from the previously rendered value, should_update_code is configured
\* true and the generator mode is date_based; with should_update_code false
\* or another generator mode no render ever issues a clear.
C14_ClearOnlyWhenDatesShift ==
    [][RenderClearCalls(calls') # {} =>
          /\ should_update_code
          /\ code_generator = "date_based"
          /\ \E i \in 1..Len(event_sensors) :
                /\ i <= Len(calendar')
                /\ calendar'[i].start > now
                /\ \/ event_sensors[i].start # calendar'[i].start
                   \/ event_sensors[i].end # calendar'[i].end]_vars

\* C16 (as claimed): whatever ignore_non_reserved is set to, no set-code
\* push is issued for a rendered event whose slot name is null, as the slot
\* name of an entry in the blocked or unavailable vocabulary is.
C16_NoPushForBlocked ==
    \A k \in SetCodes(calls) : calls[k].slot_name # <<>>

\* cal is in ascending order of start.
Ascending(cal) == \A i \in 1..(Len(cal) - 1) : cal[i].start <= cal[i + 1].start

\* The positions of feed whose entry has the summary of the event e.
FeedPositions(e, feed) ==
    {a \in 1..Len(feed) : e.summary = event_prefix \o <<" ">> \o feed[a].summary}

\* The entries of the pool that the events of cal were built from.
EntriesOf(cal) ==
    {f \in ParsePool : \E i \in 1..Len(cal) : FeedPositions(cal[i], <<f>>) # {}}

\* Events of cal with the same start stand in the order their entries have
\* in feed.
FeedOrderKept(cal, feed) ==
    \A i \in 1..Len(cal) : \A j \in (i + 1)..Len(cal) :
       cal[i].start = cal[j].start
       => \E a \in FeedPositions(cal[i], feed) :
             \E b \in FeedPositions(cal[j], feed) : a < b

\* C21: after every successful fetch the stored calendar is in ascending
\* order of start, and two events with the same start keep the order their
\* entries had in the feed.
C21_SortedStable ==
    [][(pc = "fetching" /\ response' = "status_200" /\ raised' = NoError)
       => /\ Ascending(calendar')
          /\ Ascending(parsed')
          /\ \A feed \in (IF Len(parsed') < 2 THEN {} ELSE FeedsOver(EntriesOf(parsed'))) :
                (/\ ~ParserRaises(feed, overrides, TRUE, now)
                 /\ parsed' = IcalParser(feed, overrides, TRUE, now))
                => FeedOrderKept(parsed', feed)]_vars

\* A fetch has stored two events that start at the same instant, the second
\* of the feed behind the first, ahead of nothing else.
C21_Witness ==
    /\ response = "status_200"
    /\ Len(calendar) = 2
    /\ calendar[1].start = calendar[2].start
    /\ calendar[1].summary = <<"P", " ", "B">>
    /\ calendar[2].summary = <<"P", " ", "A">>

\* The window of a fetch at instant t: from the start of the local day to
\* the configured number of days later.
WindowStart(t) == StartOfLocalDay(t)
WindowEnd(t) == StartOfLocalDay(t) + days * DayUnits

\* C22 (as claimed): every event of the list a fetch produces lies inside
\* the window: its end is not more than 30 days before window_start and its
\* start is not after window_end, for entries with date-only values and for
\* entries with date-time values alike.
C22_EventsInsideWindow ==
    [][(pc = "fetching" /\ response' = "status_200")
       => \A i \in 1..Len(parsed') :
             /\ parsed'[i].end >= WindowStart(now) - 30 * DayUnits
             /\ parsed'[i].start <= WindowEnd(now)]_vars

\* C23 (as claimed): every event of the stored calendar has start <= end,
\* for every feed entry, one whose start date equals its end date included,
\* and for every source of the times of day.
C23_StartNotAfterEnd ==
    \A i \in 1..Len(calendar) : calendar[i].start <= calendar[i].end

\* The positions of cal whose event ends after t.
EndingAfter(cal, t) == {i \in 1..Len(cal) : cal[i].end > t}

\* The first event of cal that ends after t, or cur when there is none.
FirstEndingAfter(cal, cur, t) ==
    IF EndingAfter(cal, t) = {} THEN cur
    ELSE cal[CHOOSE i \in EndingAfter(cal, t) : \A j \in EndingAfter(cal, t) : i <= j]

\* C27 (as claimed): after a fetch that leaves a non-empty calendar, the
\* coordinator's next-event reference is the first event in start order
\* whose end is in the future; if no stored event ends in the future the
\* reference keeps its previous value.
C27_NextEvent ==
    [][(/\ pc = "fetching"
        /\ response' = "status_200"
        /\ raised' = NoError
        /\ Len(calendar') > 0)
       => event' = FirstEndingAfter(calendar', event, now)]_vars

\* C27 (amended): after a fetch that stores a non-empty list of events, the
\* next-event reference is the first stored event in start order whose end
\* is in the future, or its previous value if no stored event ends in the
\* future; a fetch whose empty result is discarded in favour of the old
\* calendar leaves the reference as it was.
C27_NextEventWhenStored ==
    [][(/\ pc = "fetching"
        /\ response' = "status_200"
        /\ raised' = NoError)
       => /\ Len(parsed') > 0
             => /\ calendar' = parsed'
                /\ event' = FirstEndingAfter(calendar', event, now)
          /\ (Len(parsed') = 0 /\ Len(calendar') > 0) => event' = event]_vars

\* A fetch has stored two events of which the first has ended by now: the
\* reference is the second.
C27_Witness ==
    /\ response = "status_200"
    /\ Len(calendar) = 2
    /\ parsed = calendar
    /\ calendar[1].end <= now
    /\ calendar[2].end > now
    /\ event = calendar[2]

\* The digits of the days the generator is called with, as a calendar gives
\* them: 1, 8 and 31 March, 1 April and 31 December 2025, 1 January 2026.
CalendarDay(t) ==
    CASE DateOf(t) = 0 -> [dd |-> "01", mm |-> "03", yyyy |-> "2025"]
      [] DateOf(t) = 7 -> [dd |-> "08", mm |-> "03", yyyy |-> "2025"]
      [] DateOf(t) = 30 -> [dd |-> "31", mm |-> "03", yyyy |-> "2025"]
      [] DateOf(t) = 31 -> [dd |-> "01", mm |-> "04", yyyy |-> "2025"]
      [] DateOf(t) = 305 -> [dd |-> "31", mm |-> "12", yyyy |-> "2025"]
      [] DateOf(t) = 306 -> [dd |-> "01", mm |-> "01", yyyy |-> "2026"]

\* DD(start) DD(end) MM(start) MM(end) YYYY(start) YYYY(end).
SixteenDigits(start, end) ==
    CalendarDay(start).dd \o CalendarDay(end).dd \o CalendarDay(start).mm
    \o CalendarDay(end).mm \o CalendarDay(start).yyyy \o CalendarDay(end).yyyy

\* code is digits cut to n characters, or filled up to n with zeros on the
\* left.
CutOrFilled(code, digits, n) ==
    IF n <= Len(digits) THEN code = SubSeq(digits, 1, n)
    ELSE \E zeros \in {"0", "00", "000", "0000"} :
            Len(zeros) = n - Len(digits) /\ code = zeros \o digits

\* C25: in date_based mode, and in any mode when the event has no
\* description, the generated door code is DD(start) DD(end) MM(start)
\* MM(end) YYYY(start) YYYY(end) cut to code_length characters, or
\* zero-filled on the left when code_length exceeds its 16 characters; it
\* has exactly code_length characters and is the same on every call (start
\* 2025-03-01, end 2025-03-08, length 4 gives 0108).  With length 4 it is
\* the code the renders of the model push.
C25_DateBasedCode ==
    (fn.called /\ (fn.input.generator = "date_based" \/ fn.input.description = <<>>))
    => /\ CutOrFilled(fn.code, SixteenDigits(fn.input.start, fn.input.end),
                      fn.input.code_length)
       /\ Len(fn.code) = fn.input.code_length
       /\ (DateOf(fn.input.start) = 0 /\ DateOf(fn.input.end) = 7
           /\ fn.input.code_length = 4) => fn.code = "0108"
       /\ fn.input.code_length = 4
          => fn.code = GenerateDoorCode(fn.input.start, fn.input.end)

\* The generator has been called for 1 to 8 March 2025 with length 4 in
\* static_random mode on an event without description, and for a stay over
\* the turn of the year with length 18.
C25_Witness ==
    /\ fn.called
    /\ \/ /\ fn.input.generator = "static_random"
          /\ fn.input.description = <<>>
          /\ fn.input.code_length = 4
          /\ fn.code = "0108"
       \/ /\ fn.input.generator = "date_based"
          /\ fn.input.code_length = 18
          /\ fn.code = "003101120120252026"

\* C24 (as claimed): get_slot_name with a non-empty prefix and a summary that
\* does not contain it does not raise; a sensor render that happens after
\* update_config changed event_prefix and before the next fetch re-prefixed
\* the stored summaries completes normally.
C24_RenderAfterPrefixChange ==
    \A i \in 1..Len(calendar) :
       (event_prefix # <<>> /\ ~IsPrefixOf(event_prefix, calendar[i].summary))
       => raised # "IndexError"

\* The step is the entry of a tick: update() leaves "idle".
TickStarts == pc = "idle" /\ pc' # "idle"

\* C26: update_config sets refresh_frequency to the new value and resets
\* next_refresh to the current time, so the very next tick performs a fetch
\* whatever the previous schedule was: from update_config on the refresh
\* stays due until a tick starts, and a tick that starts with the refresh
\* due fetches.
C26_ConfigRefreshesAtOnce ==
    [][/\ response' = "config"
          => /\ refresh_frequency' = config'.refresh_frequency
             /\ next_refresh' = now
             /\ next_refresh' <= now'
       /\ (next_refresh <= now /\ ~TickStarts) => next_refresh' <= now'
       /\ (next_refresh <= now /\ TickStarts) => (pc' = "fetching" /\ fetched')]_vars

\* update_config has run at the instant of a tick that fetched, with a
\* refresh frequency the entry did not have: the schedule that tick had set
\* is replaced by the current time.
C26_Witness ==
    /\ response = "config"
    /\ fetched
    /\ calendar_ready
    /\ now = DT(1, 0)
    /\ refresh_frequency = 30
    /\ next_refresh = now

\* C28 (as claimed): for every start_slot >= 0, 0 included, and every store
\* that has an entry for each slot in range with at least one cleared
\* placeholder, next_slot after a write is not None.
C28_NextSlotWhenFree ==
    (/\ DOMAIN fn.store.overrides = ManagedRange(fn.start_slot, fn.max_slots)
     /\ \E k \in DOMAIN fn.store.overrides : fn.store.overrides[k] = None)
    => fn.store.next_slot # NoSlot

\* C29: a write to slot s changes only the entry of s: it becomes the
\* cleared placeholder when the given identity is empty, otherwise a record
\* holding the identity without its prefix and the given code, start and end;
\* the entry of every other slot is the same before and after the write.
C29_WriteChangesOnlyItsSlot ==
    [][LET a == fn'.args
           before == fn.store.overrides
           after == fn'.store.overrides
           lead == a.prefix \o <<" ">>
       IN  /\ DOMAIN after = DOMAIN before \cup {a.slot}
           /\ \A k \in DOMAIN before \ {a.slot} : after[k] = before[k]
           /\ a.slot_name = <<>> => after[a.slot] = None
           /\ a.slot_name # <<>> =>
                \E identity \in {<<>>, <<"A">>, a.slot_name} :
                    /\ \/ a.slot_name = lead \o identity
                       \/ ~IsPrefixOf(lead, a.slot_name) /\ identity = a.slot_name
                    /\ after[a.slot] = [slot_name |-> identity,
                                        slot_code |-> a.slot_code,
                                        start_time |-> a.start_time,
                                        end_time |-> a.end_time]]_vars

\* A write of a prefixed identity has been stored without the prefix next to
\* an occupied slot.
C29_Witness ==
    /\ fn.args.slot # NoSlot
    /\ fn.args.slot_name = <<"P", " ", "A">>
    /\ fn.args.prefix = <<"P">>
    /\ fn.store.overrides[fn.args.slot].slot_name = <<"A">>
    /\ \E k \in DOMAIN fn.store.overrides \ {fn.args.slot} :
           fn.store.overrides[k] # None

\* The occupied override of slot passes every test of the sweep at instant
\* t: its identity is among the rendered slot names, the calendar is not
\* empty, its start date is not after its end date, its end date is not
\* before today and its start date is not after the end date of the last
\* tracked event.
ValidAssignment(slot) ==
    /\ overrides[slot] # None
    /\ \E i \in 1..Len(event_sensors) :
           /\ event_sensors[i].slot_name # <<>>
           /\ event_sensors[i].slot_name = overrides[slot].slot_name
    /\ calendar # <<>>
    /\ DateOf(overrides[slot].start_time) <= DateOf(overrides[slot].end_time)
    /\ DateOf(overrides[slot].end_time) >= DateOf(now)
    /\ DateOf(overrides[slot].start_time)
         <= DateOf(calendar[IF max_events <= Len(calendar)
                            THEN max_events ELSE Len(calendar)].end)

\* The calls cs hold a reset of slot issued by one of the sources in by.
ResetIssued(cs, slot, by) ==
    \E i \in 1..Len(cs) : cs[i].op = "reset" /\ cs[i].slot = slot /\ cs[i].by \in by

\* C30: a sweep does not touch a valid assignment: no reset for its slot
\* goes out during the sweep, neither from the sweep's own clear nor from the
\* sensor renders it runs, and its entry is unchanged; a cleared placeholder
\* is never reset or rewritten by a sweep.
C30_SweepKeepsValid ==
    [][swept' = "ran"
       => \A slot \in DOMAIN overrides :
              (ValidAssignment(slot) \/ overrides[slot] = None)
              => /\ ~ResetIssued(calls', slot, {"sweep", "render"})
                 /\ overrides'[slot] = overrides[slot]]_vars

\* A sweep that ran cleared one slot and left a valid assignment in place.
C30_Witness ==
    /\ swept = "ran"
    /\ \E cleared \in DOMAIN overrides : ResetIssued(calls, cleared, {"sweep"})
    /\ \E slot \in DOMAIN overrides :
           /\ ValidAssignment(slot)
           /\ ~ResetIssued(calls, slot, {"sweep"})

\* C31 (as claimed): an occupied override whose start_time is after its own
\* end_time is cleared by the next sweep that is not skipped: the reset is
\* issued and the entry replaced by the cleared placeholder, also when
\* start_time and end_time fall on the same calendar date.
C31_ReversedWindowCleared ==
    [][swept' = "ran"
       => \A slot \in DOMAIN overrides :
              (/\ overrides[slot] # None
               /\ overrides[slot].start_time > overrides[slot].end_time)
              => /\ ResetIssued(calls', slot, {"sweep"})
                 /\ overrides'[slot] = None]_vars

\* The slot names the event sensors show: the names a sweep captures when it
\* starts.
RenderedNames ==
    {event_sensors[i].slot_name :
        i \in {j \in 1..Len(event_sensors) : event_sensors[j].slot_name # <<>>}}

\* C32: when a sweep that is not skipped completes, every override that was
\* occupied at its start and is still occupied has its identity among the
\* slot names rendered at the start of the sweep, an end date not before the
\* current local day and a start date not after the end date of the last
\* tracked event: calendar[max_events - 1] if the calendar has at least
\* max_events events, the last calendar event otherwise.
C32_SurvivorsAreValid ==
    [][(swept' = "ran" /\ raised' = NoError)
       => \A slot \in DOMAIN overrides :
              (overrides[slot] # None /\ overrides'[slot] # None)
              => /\ overrides'[slot].slot_name \in RenderedNames
                 /\ DateOf(overrides'[slot].end_time) >= DateOf(now)
                 /\ calendar # <<>>
                 /\ DateOf(overrides'[slot].start_time)
                      <= DateOf(calendar[IF max_events <= Len(calendar)
                                         THEN max_events
                                         ELSE Len(calendar)].end)]_vars

\* A sweep completed that cleared one occupied slot and kept another.
C32_Witness ==
    /\ swept = "ran"
    /\ raised = NoError
    /\ \E cleared \in DOMAIN overrides : ResetIssued(calls, cleared, {"sweep"})
    /\ \E slot \in DOMAIN overrides :
           /\ overrides[slot] # None
           /\ ~ResetIssued(calls, slot, {"sweep"})

\* C33 (as claimed): at no time are two calendar fetches of one coordinator
\* in flight together, whatever the interleaving of ticks with each other
\* and with the override writes (state changes, service calls, startup
\* import) that reset next_refresh to now while a fetch is suspended.
C33_OneFetchInFlight == FetchesInFlight <= 1

\* C34 (as claimed): within one refresh in which two or more rendered events
\* each lack an override, the renders that run together never push set-code
\* for two different reservations to the same door-code slot.
C34_OneReservationPerPushedSlot ==
    response = "status_200"
    => \A i, j \in 1..Len(calls) :
          (/\ calls[i].op = "set_code"
           /\ calls[j].op = "set_code"
           /\ calls[i].slot # NoSlot
           /\ calls[i].slot = calls[j].slot)
          => calls[i].slot_name = calls[j].slot_name

\* C35 (as claimed): the engine never puts one reservation identity into two
\* door-code slots: with a lock that only reflects the engine's own writes,
\* in every state reached by any interleaving of renders, sweeps and state
\* change notifications, at most one occupied override carries a given
\* identity.
C35_OneSlotPerIdentity ==
    \A a, b \in Occupied(overrides) :
        a # b => overrides[a].slot_name # overrides[b].slot_name

\* C36 (as claimed): every external slot call the engine issues (reset,
\* set-code, update-times) names a slot inside [start_slot, start_slot +
\* max_slots): no set-code goes out with next_slot None and no clear for
\* the 0 that get_slot_key_by_name returns for a name without override.
C36_CallsNameManagedSlots ==
    \A i \in 1..Len(calls) : calls[i].slot \in Slots

\* An occupied override of the table ov carries the identity of the event
\* ev and the event's dates.
MatchingOverride(ov, ev) ==
    \E k \in Occupied(ov) :
        /\ ov[k].slot_name = SlotNameOf(ev.summary, ev.description, event_prefix)
        /\ DateOf(ov[k].start_time) = DateOf(ev.start)
        /\ DateOf(ov[k].end_time) = DateOf(ev.end)

\* C37: rendering a sensor a second time, with the calendar, the overrides
\* and the configuration unchanged and an occupied override with matching
\* dates in place for the event's identity, issues no external call (no
\* clear, no set-code, no update-times) and leaves slot_name and slot_code
\* as the first render set them.
C37_SecondRenderIsQuiet ==
    (fn.renders = 2 /\ MatchingOverride(fn.store.overrides, fn.ev))
    => /\ calls = <<>>
       /\ fn.sensor.slot_name = fn.was.slot_name
       /\ fn.slot_code = fn.was_code

\* C37 is met where it has work to do: both renders are over, the first one
\* gave the sensor the event's dates and the override's code, and neither
\* raised.
C37_Witness ==
    /\ fn.renders = 2
    /\ MatchingOverride(fn.store.overrides, fn.ev)
    /\ fn.was.start = fn.ev.start
    /\ fn.slot_code = "1234"
    /\ raised = NoError

\* C38 (as claimed): with no lock configured, the coordinator having no
\* override store, every sensor render completes without error and issues
\* no external slot call, for every event, a future one rendered for the
\* first time or with a changed start or end included.
C38_UnlockedRenderIsClean ==
    fn.renders > 0 => (raised = NoError /\ calls = <<>>)

\* The slot lies in the managed range of the coordinator rc.
InRangeOf(rc, slot) == slot >= rc.start_slot /\ slot < rc.start_slot + rc.max_events

\* C39: the update_code_slot service changes the override store, the
\* readiness flags or next_refresh of a coordinator only if the
\* coordinator's lockname is the requested one and its range holds the
\* requested slot; with slot 0, no lockname, a lockname no coordinator has
\* or a slot outside every such range, no coordinator changes.
C39_ServiceWritesOnlyItsCoordinator ==
    [][\A k \in 1..Len(fn.rcs) :
          fn'.rcs[k] # fn.rcs[k]
          => /\ fn'.request.slot # 0
             /\ fn'.request.lockname # ""
             /\ fn'.request.lockname = fn.rcs[k].lockname
             /\ InRangeOf(fn.rcs[k], fn'.request.slot)]_vars

\* C39 is met where it has work to do: a call for the slot two front door
\* coordinators share has written the first of them, the second, the one
\* of the other lock and the one without a lock standing as built.
C39_Witness ==
    /\ fn.request = [lockname |-> lockname, slot |-> start_slot + 1]
    /\ Occupied(fn.rcs[1].store.overrides) = {start_slot + 1}
    /\ \A k \in 2..Len(fn.rcs) : fn.rcs[k].store = NewStore
    /\ fn.rcs[1].next_refresh > fn.rcs[2].next_refresh

\* The calendar is ready, every event sensor reports available, the latch
\* of events_ready is set and the sweep is not skipped.
Settled ==
    /\ calendar_ready
    /\ calendar_loaded
    /\ Len(event_sensors) = max_events
    /\ \A i \in 1..Len(event_sensors) : event_sensors[i].available
    /\ events_ready

\* C40 (as claimed): when from some instant on every fetch returns a 200
\* response that parses and every slot of the range has a state for its PIN
\* and its name, then under continued ticks calendar_ready becomes true,
\* every event sensor comes to report available so that events_ready
\* latches, and from then on the sweep is never skipped; also when the
\* store was ready before the first fetch that succeeded.
C40_Settles == <>[]Settled

====
